---- MODULE Spec2Model ----
(***************************************************************************)
(* Model of the tempo coordinator charm: the tempo-cluster provider        *)
(* endpoint wrapper (src/src/tempo_cluster.py), the coordinator's          *)
(* consistency verdict (src/src/coordinator.py) and the charm's            *)
(* reconciliation pass (src/src/charm.py),                                 *)
(*                                                                         *)
(* and the tempo-api library                                               *)
(* (src/lib/charms/tempo_coordinator_k8s/v0/tempo_api.py).                 *)
(*                                                                         *)
(* The specifications are defined over the same variables:                 *)
(*   AggSpec  draws a membership snapshot and an s3 flag from bounded sets *)
(*            and applies the aggregation functions and the verdict;       *)
(*   Spec     lets the Juju environment change and dispatches events to    *)
(*            the charm, one charm instance per dispatch;                  *)
(*   TracingSpec lets requirers come and go on the tracing endpoint;       *)
(*   SynthSpec applies the config synthesizers to bounded inputs;          *)
(*   ApiSpec  runs the provider and the requirer of the tempo-api library. *)
(*   FaultSpec dispatches hooks in which a collaborator call may raise;    *)
(*   ReplicaSpec interleaves the publishing passes of several replicas.    *)
(***************************************************************************)
EXTENDS Integers, Sequences, FiniteSets, TLC

VARIABLES
    relations,        \* tempo-cluster relations: relation id -> [app_data, units]
    s3,               \* s3 connection info as returned by the s3 requirer (a databag)
    leader,           \* whether this unit is the leader
    cert,             \* certificate handler state
    tracing,          \* tracing relations: relation id -> requested receivers
    ingress,          \* whether the ingress (traefik route) relation is ready
    cluster_databag,  \* local application databag of each tempo-cluster relation
    tracing_databag,  \* local application databag of each tracing relation
    ingress_cfg,      \* configuration last submitted to traefik
    charm,            \* attributes of the charm instance of the last dispatch
    agg,              \* outputs of the aggregation functions (AggSpec)
    synth,            \* last call of a config synthesizer (SynthSpec)
    api,              \* tempo-api: the provider's data and databags, the last call (ApiSpec)
    inflight          \* passes of the replicas that have begun to publish (ReplicaSpec)

vars == <<relations, s3, leader, cert, tracing, ingress,
          cluster_databag, tracing_databag, ingress_cfg, charm, agg, synth, api, inflight>>

(***************************************************************************)
(* Bounds of the model.                                                    *)
(***************************************************************************)
\* tempo-cluster relations a snapshot may hold
MaxRelations == 2
\* worker units a snapshot may hold, all relations together
MaxUnits == 3

(***************************************************************************)
(* TempoRole                                                               *)
(***************************************************************************)
TempoRole ==
    {"all", "querier", "query-frontend", "ingester", "distributor",
     "compactor", "metrics-generator"}

\* the enum's members other than the meta-role, in declaration order
all_nonmeta ==
    <<"querier", "query-frontend", "ingester", "distributor",
      "compactor", "metrics-generator">>

MINIMAL_DEPLOYMENT ==
    [role \in {"querier", "query-frontend", "ingester", "distributor",
               "compactor", "metrics-generator"} |-> 1]

RECOMMENDED_DEPLOYMENT ==
    [role \in {"querier", "query-frontend", "ingester", "distributor",
               "compactor", "metrics-generator"} |->
        IF role = "ingester" THEN 3 ELSE 1]

(***************************************************************************)
(* Databags.  A databag maps keys to raw text.  Raw text is modelled by    *)
(* what json.loads makes of it: [t |-> "str"] is the JSON text of a        *)
(* string, [t |-> "obj"] of an object, [t |-> "text"] is not JSON at all.  *)
(***************************************************************************)
JsonStr(s) == [t |-> "str", v |-> s]
JsonObj(s) == [t |-> "obj", v |-> s]
NotJson(s) == [t |-> "text", v |-> s]

EmptyDatabag == [k \in {} |-> NotJson("")]

\* json.loads: raises JSONDecodeError on text that is not JSON
JsonDecodable(raw) == raw.t # "text"

\* DatabagModel.load, first step: only the model's own fields are parsed
FieldsPresent(databag, fields) == (DOMAIN databag) \cap fields

LoadDecodes(databag, fields) ==
    \A k \in FieldsPresent(databag, fields) : JsonDecodable(databag[k])

\* pydantic validation of a TempoRole field: a string that is a member value
ValidRoleValue_NoCheck(raw) == raw.t = "str"

ValidRoleValue(raw) == raw.t = "str" /\ raw.v \in TempoRole

\* TempoClusterRequirerAppData.load: [ok, role]; ok = FALSE is DataValidationError
AppDataLoad(databag) ==
    IF /\ LoadDecodes(databag, {"role"})
       /\ "role" \in DOMAIN databag
       /\ ValidRoleValue(databag["role"])
    THEN [ok |-> TRUE, role |-> databag["role"].v]
    ELSE [ok |-> FALSE, role |-> ""]

\* pydantic validation of JujuTopology: an object with model and unit
ValidTopologyValue(raw) == raw.t = "obj" /\ raw.v = "model,unit"

\* TempoClusterRequirerUnitData.load: [ok, address]
UnitDataLoad(databag) ==
    IF /\ LoadDecodes(databag, {"juju_topology", "address"})
       /\ {"juju_topology", "address"} \subseteq DOMAIN databag
       /\ ValidTopologyValue(databag["juju_topology"])
       /\ databag["address"].t = "str"
    THEN [ok |-> TRUE, address |-> databag["address"].v]
    ELSE [ok |-> FALSE, address |-> ""]

(***************************************************************************)
(* The databags the environment may hold.                                  *)
(***************************************************************************)
RoleDatabag(raw) == [k \in {"role"} |-> raw]

\* the role values the worker applications of the model are configured with
WorkerRoles == {"all", "ingester", "distributor", "query-frontend"}

\* app databags: a role, a string that is no role, text that is no JSON, nothing
AppDataChoices ==
    {RoleDatabag(JsonStr(r)) : r \in WorkerRoles}
        \cup {RoleDatabag(JsonStr("bogus")), RoleDatabag(NotJson("all")), EmptyDatabag}

UnitDatabag(raw_address) ==
    [k \in {"juju_topology", "address", "ingress-address"} |->
        CASE k = "juju_topology" -> JsonObj("model,unit")
          [] k = "address" -> raw_address
          [] OTHER -> NotJson("10.1.0.1")]

\* a unit that has not published anything yet: Juju's own keys only
BareUnitDatabag == [k \in {"ingress-address"} |-> NotJson("10.1.0.1")]

\* the address unit i of the worker application of relation r publishes
WorkerAddress(r, i) ==
    <<<<"worker-a-0", "worker-a-1", "worker-a-2", "worker-a-3", "worker-a-4">>,
      <<"worker-b-0", "worker-b-1", "worker-b-2", "worker-b-3", "worker-b-4">>,
      <<"worker-c-0", "worker-c-1", "worker-c-2", "worker-c-3", "worker-c-4">>,
      <<"worker-d-0", "worker-d-1", "worker-d-2", "worker-d-3", "worker-d-4">>>>[r][i]

\* the databag of unit i of relation r: with its address, or with none yet
WorkerUnitDatabag(r, i, has_address) ==
    IF has_address THEN UnitDatabag(JsonStr(WorkerAddress(r, i))) ELSE BareUnitDatabag

(***************************************************************************)
(* TempoClusterProvider                                                    *)
(***************************************************************************)
RECURSIVE SortedIds(_)
SortedIds(S) ==
    IF S = {} THEN <<>>
    ELSE LET m == CHOOSE x \in S : \A y \in S : x <= y
         IN <<m>> \o SortedIds(S \ {m})

\* self._relations: the relations of the endpoint that have an app and data
ProviderRelations(rels) == SortedIds(DOMAIN rels)

\* collections.Counter: data[key] += n
CounterAdd(data, key, n) ==
    [k \in (DOMAIN data) \cup {key} |->
        IF k = key
        THEN (IF key \in DOMAIN data THEN data[key] ELSE 0) + n
        ELSE data[k]]

EmptyCounter == [k \in {} |-> 0]

RECURSIVE AddToRoles(_, _, _)
AddToRoles(data, roles, n) ==
    IF roles = <<>> THEN data
    ELSE AddToRoles(CounterAdd(data, Head(roles), n), Tail(roles), n)

\* a variant that counts the meta-role under its own key
CountRole_NoExpansion(data, worker_role, role_n) ==
    CounterAdd(data, worker_role, role_n)

\* a variant that divides the units of an 'all' worker among the roles
CountRole_Divided(data, worker_role, role_n) ==
    IF worker_role = "all"
    THEN AddToRoles(data, all_nonmeta, role_n \div 6)
    ELSE CounterAdd(data, worker_role, role_n)

\* gather_roles, the body of the loop once the role is decoded
CountRole(data, worker_role, role_n) ==
    IF worker_role = "all"
    THEN AddToRoles(data, all_nonmeta, role_n)
    ELSE CounterAdd(data, worker_role, role_n)

RECURSIVE GatherRolesLoop(_, _, _)
GatherRolesLoop(rels, ids, data) ==
    IF ids = <<>> THEN data
    ELSE LET relation == rels[Head(ids)]
             loaded == AppDataLoad(relation.app_data)
         IN IF ~loaded.ok
            THEN GatherRolesLoop(rels, Tail(ids), data)
            ELSE GatherRolesLoop(rels, Tail(ids),
                                 CountRole(data, loaded.role, Len(relation.units)))

\* gather_roles: dct is copied from data before 'all' is deleted from data,
\* so the returned dict is the counter as the loop left it
gather_roles(rels) ==
    LET data == GatherRolesLoop(rels, ProviderRelations(rels), EmptyCounter)
        dct == data
    IN dct

\* collections.defaultdict(set): data[key].add(x)
SetAdd(data, key, x) ==
    [k \in (DOMAIN data) \cup {key} |->
        IF k = key
        THEN (IF key \in DOMAIN data THEN data[key] ELSE {}) \cup {x}
        ELSE data[k]]

EmptySetDict == [k \in {} |-> {}]

\* a variant in which one unit's invalid databag ends the relation's loop
RECURSIVE AddUnitAddresses_Abort(_, _, _)
AddUnitAddresses_Abort(data, role, units) ==
    IF units = <<>> THEN data
    ELSE LET worker_data == UnitDataLoad(Head(units))
         IN IF ~worker_data.ok
            THEN data
            ELSE AddUnitAddresses_Abort(SetAdd(data, role, worker_data.address),
                                        role, Tail(units))

\* gather_addresses_by_role, the loop over relation.units
RECURSIVE AddUnitAddresses(_, _, _)
AddUnitAddresses(data, role, units) ==
    IF units = <<>> THEN data
    ELSE LET worker_data == UnitDataLoad(Head(units))
         IN IF ~worker_data.ok
            THEN AddUnitAddresses(data, role, Tail(units))
            ELSE AddUnitAddresses(SetAdd(data, role, worker_data.address),
                                  role, Tail(units))

RECURSIVE GatherAddressesLoop(_, _, _)
GatherAddressesLoop(rels, ids, data) ==
    IF ids = <<>> THEN data
    ELSE LET relation == rels[Head(ids)]
             worker_app_data == AppDataLoad(relation.app_data)
         IN IF ~worker_app_data.ok
            THEN GatherAddressesLoop(rels, Tail(ids), data)
            ELSE GatherAddressesLoop(rels, Tail(ids),
                     AddUnitAddresses(data, worker_app_data.role, relation.units))

gather_addresses_by_role(rels) ==
    GatherAddressesLoop(rels, ProviderRelations(rels), EmptySetDict)

\* gather_addresses, the loop over addresses_by_role.items(): a set
UnionOfAddresses(addresses_by_role) ==
    UNION {addresses_by_role[role] : role \in DOMAIN addresses_by_role}

\* gather_addresses
gather_addresses(rels) == UnionOfAddresses(gather_addresses_by_role(rels))

\* has_workers
has_workers(rels) == ProviderRelations(rels) # <<>>

(***************************************************************************)
(* TempoCoordinator                                                        *)
(***************************************************************************)
is_coherent(roles) == (DOMAIN MINIMAL_DEPLOYMENT) \subseteq (DOMAIN roles)

missing_roles(roles) == (DOMAIN MINIMAL_DEPLOYMENT) \ (DOMAIN roles)

\* dict.get(role, 0)
RoleCount(roles, role) == IF role \in DOMAIN roles THEN roles[role] ELSE 0

\* a variant that checks the minimal table instead of the recommended one
is_recommended_Minimal(roles) ==
    \A role \in DOMAIN MINIMAL_DEPLOYMENT :
        ~(RoleCount(roles, role) < MINIMAL_DEPLOYMENT[role])

is_recommended(roles) ==
    \A role \in DOMAIN RECOMMENDED_DEPLOYMENT :
        ~(RoleCount(roles, role) < RECOMMENDED_DEPLOYMENT[role])

NoS3Failure == <<"Tempo has no s3 integration.">>
IncoherentFailure(missing) == <<"Incoherent coordinator: missing roles: ", missing>>

\* a variant that reports the incoherence first
deployment_inconsistencies_Swapped(has_s3, coherent, missing) ==
    (IF ~coherent THEN <<IncoherentFailure(missing)>> ELSE <<>>)
        \o (IF ~has_s3 THEN <<NoS3Failure>> ELSE <<>>)

\* _get_deployment_inconsistencies
deployment_inconsistencies(has_s3, coherent, missing) ==
    (IF ~has_s3 THEN <<NoS3Failure>> ELSE <<>>)
        \o (IF ~coherent THEN <<IncoherentFailure(missing)>> ELSE <<>>)

\* TempoCoordinator.__init__
Coordinator(rels) ==
    LET roles == gather_roles(rels)
    IN [roles |-> roles,
        is_coherent |-> is_coherent(roles),
        missing_roles |-> missing_roles(roles),
        is_recommended |-> is_recommended(roles)]

\* get_deployment_inconsistencies
get_deployment_inconsistencies(coordinator, has_s3) ==
    deployment_inconsistencies(has_s3, coordinator.is_coherent,
                               coordinator.missing_roles)

(***************************************************************************)
(* TempoCoordinatorCharm.__init__: the verdict that gates the pass         *)
(***************************************************************************)
\* a variant that never gates
IsConsistent_Always(inconsistencies) == TRUE

\* a variant with a sticky ready state: once a record has been published the
\* deployment keeps counting as consistent
IsConsistent_Sticky(inconsistencies) ==
    \/ inconsistencies = <<>>
    \/ \E r \in DOMAIN cluster_databag : DOMAIN cluster_databag[r] # {}

\* self._is_consistent = not self._inconsistencies
IsConsistent(inconsistencies) == inconsistencies = <<>>

(***************************************************************************)
(* TempoCoordinatorCharm: what a dispatch reads from the Juju environment  *)
(***************************************************************************)
\* the keys _s3_config requires in the s3 connection info
S3Fields == {"bucket", "endpoint", "access-key", "secret-key"}

S3Info(fields) == [k \in fields |-> NotJson(k)]

\* what the s3 integrator may publish: partial credentials, complete
\* credentials
S3Choices == {S3Info({"bucket", "endpoint"}), S3Info(S3Fields)}

\* s3_ready: _s3_config returns the connection info instead of raising
s3_ready == S3Fields \subseteq DOMAIN s3

\* certificate handler states; <<>> stands for None
CertDisabled ==
    [enabled |-> FALSE, server_cert |-> <<>>, private_key |-> <<>>, ca_cert |-> <<>>]
CertReady ==
    [enabled |-> TRUE, server_cert |-> <<"SERVER_CERT">>,
     private_key |-> <<"PRIVATE_KEY">>, ca_cert |-> <<"CA_CERT">>]
CertChoices == {CertDisabled, CertReady}

\* tls_available taken to be the certificate handler being enabled
tls_available_EnabledOnly == cert.enabled

tls_available ==
    /\ cert.enabled
    /\ cert.server_cert # <<>>
    /\ cert.private_key # <<>>
    /\ cert.ca_cert # <<>>

\* the traefik route relation: absent, ready before traefik has published
\* its external host, ready with an external host
IngressNone == [is_ready |-> FALSE, external_host |-> <<>>]
IngressReady == [is_ready |-> TRUE, external_host |-> <<>>]
IngressHost == [is_ready |-> TRUE, external_host |-> <<"traefik.example">>]
IngressChoices == {IngressNone, IngressReady, IngressHost}

\* Tempo.receiver_ports: the receiver protocols tempo supports
receiver_ports ==
    [p \in {"zipkin", "otlp_grpc", "otlp_http", "jaeger_thrift_http", "jaeger_grpc"} |->
        CASE p = "zipkin" -> 9411
          [] p = "otlp_grpc" -> 4317
          [] p = "otlp_http" -> 4318
          [] p = "jaeger_thrift_http" -> 14268
          [] p = "jaeger_grpc" -> 14250]

\* what a requirer on a tracing relation may request
TracingRequestChoices == {{"otlp_grpc"}}

\* a variant without the receiver that is always enabled
enabled_receivers_None == {}

\* enabled_receivers with every always_enable_* option left at its default
enabled_receivers == {"otlp_http"}

\* TracingEndpointProvider.requested_protocols()
requested_protocols == UNION {tracing[r] : r \in DOMAIN tracing}

\* a variant that publishes whatever is requested
RequestedReceivers_Unfiltered(requested) == requested \cup enabled_receivers

\* _requested_receivers(): the requested and the enabled receivers, and of
\* these only the supported ones
RequestedReceivers(requested) ==
    (requested \cup enabled_receivers) \cap (DOMAIN receiver_ports)

\* the set _requested_receivers() turns into a tuple
requested_receivers == RequestedReceivers(requested_protocols)

\* tuple(S): the elements of S, each once, in the iteration order of the
\* set, which for a set of str depends on the hash seed of the process
TupleOf(S) ==
    {t \in [1..Cardinality(S) -> S] : \A i, j \in DOMAIN t : i # j => t[i] # t[j]}

(***************************************************************************)
(* TempoCoordinatorCharm: utility methods.  A pass threads a record w of   *)
(* the relation data it has written so far, the utility methods it has     *)
(* entered, the calls it has made on its collaborators and whether an      *)
(* exception has been raised; w.requested_receivers is the tuple           *)
(* _requested_receivers() returns in the process running the pass, and     *)
(* w.fault the collaborator call that raises in it, if any.                *)
(***************************************************************************)
\* the calls of _update_tempo_cluster on collaborators that may raise:
\* publish_privkey (model.get_secret) and Tempo.generate_config
Faults == {"none", "publish_privkey", "generate_config"}

World(requested) ==
    [cluster_databag |-> cluster_databag, tracing_databag |-> tracing_databag,
     ingress_cfg |-> ingress_cfg, requested_receivers |-> requested,
     entered |-> {}, calls |-> {}, error |-> FALSE, fault |-> "none"]

Enter(w, method) == [w EXCEPT !.entered = @ \cup {method}]

\* the arguments the charm hands to Tempo.generate_config
TempoConfig ==
    [receivers |-> requested_receivers, s3 |-> s3, use_tls |-> tls_available]

\* publish_privkey returns the id of the secret holding the private key
PrivkeySecretId == "secret:tempo-server-cert-privkey"

\* the fields of the record that carry the TLS material
TlsFields == {"ca_cert", "server_cert", "privkey_secret_id"}

\* kwargs of _update_tempo_cluster: the TLS material when TLS is available;
\* <<>> stands for None
TlsKwargs ==
    IF tls_available
    THEN [k \in TlsFields |->
             CASE k = "ca_cert" -> cert.ca_cert
               [] k = "server_cert" -> cert.server_cert
               [] k = "privkey_secret_id" -> <<PrivkeySecretId>>]
    ELSE [k \in {} |-> <<>>]

\* the keyword arguments of publish_data that are not None: the fields
\* model_dump(exclude_defaults=True) keeps
PublishKwargs ==
    [k \in {"tempo_config", "loki_endpoints"}
            \cup {f \in DOMAIN TlsKwargs : TlsKwargs[f] # <<>>} |->
        CASE k = "tempo_config" -> JsonObj(TempoConfig)
          [] k = "loki_endpoints" -> JsonObj(<<>>)
          [] OTHER -> JsonStr(TlsKwargs[k][1])]

\* a variant of dump that does not clear the databag first
dump_NoClear(model_fields, databag) ==
    [k \in (DOMAIN databag) \cup (DOMAIN model_fields) |->
        IF k \in DOMAIN model_fields THEN model_fields[k] ELSE databag[k]]

\* DatabagModel.dump: the databag is cleared, then the fields that differ
\* from their defaults are written
dump(model_fields, databag) ==
    LET cleared == [k \in {} |-> databag[k]]
    IN [k \in (DOMAIN cleared) \cup (DOMAIN model_fields) |->
           IF k \in DOMAIN model_fields THEN model_fields[k] ELSE cleared[k]]

\* TempoClusterProvider.publish_data: one dump per tempo-cluster relation
publish_data(databags, model_fields) ==
    [r \in DOMAIN databags |-> dump(model_fields, databags[r])]

\* the tail of _update_tempo_cluster with publish_data called before its
\* arguments are known to evaluate
PublishEverything_WriteFirst(w) ==
    IF (tls_available /\ w.fault = "publish_privkey")
       \/ ~s3_ready \/ w.fault = "generate_config"
    THEN [w EXCEPT !.error = TRUE,
                   !.cluster_databag = publish_data(@, PublishKwargs),
                   !.calls = @ \cup {"publish_data"}]
    ELSE [w EXCEPT !.cluster_databag = publish_data(@, PublishKwargs),
                   !.calls = @ \cup {"generate_config", "publish_data"}
                               \cup (IF tls_available THEN {"publish_privkey"} ELSE {})]

\* the tail of _update_tempo_cluster: publish_privkey when TLS is available,
\* then the arguments of publish_data, where _s3_config raises
\* S3NotFoundError before generate_config is called, then publish_data; a
\* call that raises ends the method before publish_data writes anything
PublishEverything(w) ==
    IF tls_available /\ w.fault = "publish_privkey"
    THEN [w EXCEPT !.error = TRUE, !.calls = @ \cup {"publish_privkey"}]
    ELSE IF ~s3_ready
    THEN [w EXCEPT !.error = TRUE,
                   !.calls = @ \cup (IF tls_available THEN {"publish_privkey"} ELSE {})]
    ELSE IF w.fault = "generate_config"
    THEN [w EXCEPT !.error = TRUE,
                   !.calls = @ \cup {"generate_config"}
                               \cup (IF tls_available THEN {"publish_privkey"} ELSE {})]
    ELSE [w EXCEPT !.cluster_databag = publish_data(@, PublishKwargs),
                   !.calls = @ \cup {"generate_config", "publish_data"}
                               \cup (IF tls_available THEN {"publish_privkey"} ELSE {})]

\* _update_tempo_cluster with the leadership check left out
update_tempo_cluster_AnyUnit(w, is_consistent) ==
    IF w.error THEN w
    ELSE IF ~is_consistent THEN Enter(w, "_update_tempo_cluster")
    ELSE PublishEverything(Enter(w, "_update_tempo_cluster"))

\* _update_tempo_cluster: nothing on an inconsistent deployment, nothing on
\* a unit that is not the leader
update_tempo_cluster(w, is_consistent) ==
    IF w.error THEN w
    ELSE IF ~is_consistent THEN Enter(w, "_update_tempo_cluster")
    ELSE IF ~leader THEN Enter(w, "_update_tempo_cluster")
    ELSE PublishEverything(Enter(w, "_update_tempo_cluster"))

\* the list of (protocol, url) pairs handed to publish_receivers, in the
\* order of the tuple; the url is Tempo.get_receiver_url(p, self.ingress),
\* kept as what it is computed from
Receivers(requested) ==
    [i \in DOMAIN requested |->
        [protocol |-> requested[i], ingress |-> ingress, use_tls |-> tls_available]]

\* TracingEndpointProvider.publish_receivers: every tracing relation
publish_receivers(databags, receivers) == [r \in DOMAIN databags |-> receivers]

\* _update_tracing_relations
update_tracing_relations(w, is_consistent) ==
    IF w.error THEN w
    ELSE IF DOMAIN tracing = {} THEN Enter(w, "_update_tracing_relations")
    ELSE update_tempo_cluster(
            IF leader
            THEN [Enter(w, "_update_tracing_relations") EXCEPT
                     !.tracing_databag = publish_receivers(@, Receivers(w.requested_receivers)),
                     !.calls = @ \cup {"publish_receivers"}]
            ELSE Enter(w, "_update_tracing_relations"),
            is_consistent)

\* _ingress_config and _static_ingress_config, kept as what they are
\* computed from
IngressConfig == [submitted |-> TRUE, use_tls |-> tls_available]
NoIngressConfig == [submitted |-> FALSE, use_tls |-> FALSE]

submit_to_traefik(w) ==
    [w EXCEPT !.ingress_cfg = IngressConfig, !.calls = @ \cup {"submit_to_traefik"}]

\* _configure_ingress
configure_ingress(w, is_consistent) ==
    IF w.error THEN w
    ELSE IF ~leader THEN Enter(w, "_configure_ingress")
    ELSE update_tempo_cluster(
            IF ingress.is_ready
            THEN IF ingress.external_host # <<>>
                 THEN update_tracing_relations(
                         submit_to_traefik(Enter(w, "_configure_ingress")),
                         is_consistent)
                 ELSE submit_to_traefik(Enter(w, "_configure_ingress"))
            ELSE Enter(w, "_configure_ingress"),
            is_consistent)

(***************************************************************************)
(* TempoCoordinatorCharm: event handlers                                   *)
(***************************************************************************)
\* the events the charm observes once the deployment is consistent
CharmEvents ==
    {"leader_elected", "update_status", "config_changed", "list_receivers_action",
     "ingress_relation_created", "ingress_relation_joined", "ingress_ready",
     "s3_credentials_changed", "s3_credentials_gone",
     "tracing_request", "tracing_broken",
     "peers_relation_created", "peers_relation_changed",
     "cert_changed", "tempo_cluster_changed"}

\* the hooks Juju may deliver: the observed events and one the charm never
\* observes
Events == CharmEvents \cup {"start"}

\* collect-status is observed in every dispatch; the other observers are
\* registered only past the early return of __init__
Observed(is_consistent) ==
    {"collect_unit_status"} \cup (IF is_consistent THEN CharmEvents ELSE {})

\* _on_cert_handler_changed; _update_server_cert only touches a local file
on_cert_handler_changed(w, is_consistent) ==
    update_tempo_cluster(
        update_tracing_relations(configure_ingress(w, is_consistent), is_consistent),
        is_consistent)

\* the body of the handler bound to each event: the utility method it
\* calls, "pass" for a handler that writes no relation data, "unobserved"
\* for an event the charm has no handler for
HandlerBody(event) ==
    CASE event \in {"leader_elected", "ingress_relation_created",
                    "ingress_relation_joined"} -> "_configure_ingress"
      [] event \in {"config_changed", "s3_credentials_changed", "s3_credentials_gone",
                    "peers_relation_changed", "tempo_cluster_changed"} ->
            "_update_tempo_cluster"
      [] event \in {"ingress_ready", "tracing_request", "tracing_broken"} ->
            "_update_tracing_relations"
      [] event = "cert_changed" -> "_on_cert_handler_changed"
      [] event \in {"update_status", "list_receivers_action",
                    "peers_relation_created"} -> "pass"
      [] OTHER -> "unobserved"

\* the distinct handler bodies, and the events bound to each
HandlerBodies == {HandlerBody(event) : event \in Events}

EventsOfBody == [body \in HandlerBodies |-> {event \in Events : HandlerBody(event) = body}]

EventsOf(body) == EventsOfBody[body]

\* running a handler body
Handle(body, w, is_consistent) ==
    CASE body = "_configure_ingress" -> configure_ingress(w, is_consistent)
      [] body = "_update_tempo_cluster" -> update_tempo_cluster(w, is_consistent)
      [] body = "_update_tracing_relations" ->
            update_tracing_relations(w, is_consistent)
      [] body = "_on_cert_handler_changed" ->
            on_cert_handler_changed(w, is_consistent)
      [] OTHER -> w

\* no dispatch since the environment last changed
CharmIdle ==
    [dispatched |-> FALSE, handled |-> FALSE,
     inconsistencies |-> <<>>, is_consistent |-> FALSE,
     observed |-> {}, entered |-> {}, calls |-> {}, error |-> FALSE]

\* The rest of a dispatch once __init__ has computed the failure list: the
\* observers are registered according to the verdict and the handler
\* observing the delivered event, if any, runs.  The events bound to one
\* handler body make the same pass, which is taken once per body.  The
\* instance is recorded by its verdict, its observers, whether a handler
\* ran, the utility methods entered and the calls made on collaborators.
\* Relation data written by a hook that raises is not committed.  The
\* process may iterate the set of requested receivers in any order; the
\* outcomes of the pass are taken over these orders, and over the calls in
\* faults that may raise in it.
Pass(body, inconsistencies, tuples, faults) ==
    \E handled \in {EventsOf(body) \cap Observed(IsConsistent(inconsistencies)) # {}} :
      \E w \in {[entered |-> h.entered, calls |-> h.calls, error |-> h.error,
                 cluster_databag |-> h.cluster_databag,
                 tracing_databag |-> h.tracing_databag,
                 ingress_cfg |-> h.ingress_cfg] :
                h \in {IF handled
                       THEN Handle(body, [World(requested) EXCEPT !.fault = fault],
                                   IsConsistent(inconsistencies))
                       ELSE World(requested) :
                       requested \in tuples, fault \in faults}} :
       /\ cluster_databag' = IF w.error THEN cluster_databag ELSE w.cluster_databag
       /\ tracing_databag' = IF w.error THEN tracing_databag ELSE w.tracing_databag
       /\ ingress_cfg' = IF w.error THEN ingress_cfg ELSE w.ingress_cfg
       /\ charm' = [dispatched |-> TRUE,
                    handled |-> handled,
                    inconsistencies |-> inconsistencies,
                    is_consistent |-> IsConsistent(inconsistencies),
                    observed |-> Observed(IsConsistent(inconsistencies)),
                    entered |-> w.entered,
                    calls |-> w.calls,
                    error |-> w.error]
       /\ UNCHANGED <<relations, s3, leader, cert, tracing, ingress, agg, synth, api, inflight>>

\* One dispatch: Juju delivers any of its hooks to a fresh charm instance,
\* whose __init__ computes the failure list of the current snapshot; tuples
\* holds the tuples _requested_receivers() may return in it
Dispatch ==
    \E inconsistencies \in
            {get_deployment_inconsistencies(Coordinator(relations), s3_ready)} :
       \E tuples \in {TupleOf(requested_receivers)} :
          \E body \in HandlerBodies : Pass(body, inconsistencies, tuples, {"none"})

(***************************************************************************)
(* TempoCoordinatorCharm._on_collect_unit_status                           *)
(***************************************************************************)
Status(name, message) == [name |-> name, message |-> message]

\* the framework keeps the status of the highest priority among those added
StatusPriority(name) ==
    CASE name = "error" -> 5
      [] name = "blocked" -> 4
      [] name = "maintenance" -> 3
      [] name = "waiting" -> 2
      [] name = "active" -> 1
      [] OTHER -> 0

\* the first added among the statuses of the highest priority
HighestPriority(statuses) ==
    statuses[CHOOSE i \in 1..Len(statuses) :
                \A j \in 1..Len(statuses) :
                    \/ StatusPriority(statuses[j].name) < StatusPriority(statuses[i].name)
                    \/ /\ StatusPriority(statuses[j].name) = StatusPriority(statuses[i].name)
                       /\ i <= j]

WaitingNotReady == Status("waiting", <<"[workload.tempo] Tempo API not ready just yet...">>)

\* the statuses the consistency branch adds
ConsistencyStatuses(inconsistencies, is_clustered, recommended) ==
    IF inconsistencies # <<>>
    THEN [i \in 1..Len(inconsistencies) |->
             Status("blocked", <<"[consistency.issues]", inconsistencies[i]>>)]
         \o <<Status("blocked", <<"[consistency] Unit *disabled*.">>)>>
    ELSE IF is_clustered /\ ~recommended
    THEN <<Status("active", <<"[coordinator] degraded">>)>>
    ELSE <<Status("active", <<>>)>>

\* a variant that stops at the waiting status when the workload is not ready
on_collect_unit_status_WaitingOnly(is_ready, inconsistencies, is_clustered, recommended) ==
    IF ~is_ready THEN WaitingNotReady
    ELSE HighestPriority(ConsistencyStatuses(inconsistencies, is_clustered, recommended))

\* _on_collect_unit_status: the unit status the dispatch ends with
on_collect_unit_status(is_ready, inconsistencies, is_clustered, recommended) ==
    HighestPriority(
        (IF ~is_ready THEN <<WaitingNotReady>> ELSE <<>>)
        \o ConsistencyStatuses(inconsistencies, is_clustered, recommended))

(***************************************************************************)
(* AggSpec: the aggregation functions and the verdict applied to bounded   *)
(* membership snapshots.                                                   *)
(***************************************************************************)
RelIds == 1..MaxRelations

RECURSIVE SumUnits(_, _)
SumUnits(rels, S) ==
    IF S = {} THEN 0
    ELSE LET r == CHOOSE x \in S : TRUE
         IN Len(rels[r].units) + SumUnits(rels, S \ {r})

TotalUnits(rels) == SumUnits(rels, DOMAIN rels)

(***************************************************************************)
(* The tempo-api library: TempoApiProvider and TempoApiRequirer.  A        *)
(* databag maps keys to str values; api.local holds the provider's         *)
(* application databag of each tempo-api relation, which is what the       *)
(* requirer at the other end reads as the remote application's data.       *)
(***************************************************************************)
\* tempo-api relations of the provider
MaxApiRelations == 2

ApiRelIds == 1..MaxApiRelations

\* relations to other providers a requirer may have besides
MaxOtherProviders == 1

\* the fields of TempoApiAppData; all three are required
ModelFields == {"ingress_url", "internal_url", "grpc_port"}

\* the defaults of the fields of TempoApiAppData: no field has one
FieldDefaults == [k \in {} |-> ""]

\* TempoApiAppData(grpc_port=..., ingress_url=..., internal_url=...)
TempoApiAppData(ingress_url, internal_url, grpc_port) ==
    [ingress_url |-> ingress_url, internal_url |-> internal_url, grpc_port |-> grpc_port]

\* the data the charm constructs the provider with
ApiDataChoices ==
    {TempoApiAppData(u, "http://tempo-0.local:3200", "9096") :
        u \in {"http://ingress-a/", "http://ingress-b/"}}

NoDatabag == [k \in {} |-> ""]

\* a databag written by another revision of the library
LegacyDatabag == [k \in {"direct_url"} |-> "http://tempo-0.local:3200"]

\* model_dump(mode="json", by_alias=True, exclude_defaults=True, round_trip=True)
model_dump(data) ==
    [k \in {f \in DOMAIN data : f \notin DOMAIN FieldDefaults \/ data[f] # FieldDefaults[f]} |->
        data[k]]

\* dump_to_databag
dump_to_databag(data, databag, clear) ==
    LET cleared == IF clear THEN NoDatabag ELSE databag
        dct == model_dump(data)
    IN [k \in (DOMAIN cleared) \cup (DOMAIN dct) |->
           IF k \in DOMAIN dct THEN dct[k] ELSE cleared[k]]

\* load_from_databag: model_validate_json raises ValidationError when a
\* required field is missing; keys that are no field are ignored
load_from_databag(databag) ==
    IF ModelFields \subseteq DOMAIN databag
    THEN [raised |-> "none", value |-> <<[k \in ModelFields |-> databag[k]]>>]
    ELSE [raised |-> "ValidationError", value |-> <<>>]

\* TempoApiProvider.send_data: a dump into the databag of every relation
send_data(databags, data) ==
    [r \in DOMAIN databags |-> dump_to_databag(data, databags[r], TRUE)]

\* a variant in which every unit sends
handle_send_data_event_AnyUnit(databags, data) == send_data(databags, data)

\* TempoApiProvider.handle_send_data_event
handle_send_data_event(databags, data) ==
    IF leader THEN send_data(databags, data) ELSE databags

\* the events TempoApiProvider.__init__ observes
ProviderObserved(refresh_event) == refresh_event \cup {"relation_joined", "leader_elected"}

\* the events delivered to the provider's charm
ApiEvents == {"relation_joined", "leader_elected", "config_changed", "update_status"}

\* the refresh_event the charm may construct the provider with
RefreshChoices == {{}, {"config_changed"}}

\* a variant that takes the first relation when several are related
get_data_First(remote_data) ==
    IF Len(remote_data) = 0 THEN [raised |-> "none", value |-> <<>>]
    ELSE IF remote_data[1] = NoDatabag THEN [raised |-> "none", value |-> <<>>]
    ELSE load_from_databag(remote_data[1])

\* TempoApiRequirer.get_data on the remote application databags of the
\* requirer's relations; value is <<>> for None
get_data(remote_data) ==
    IF Len(remote_data) = 0 THEN [raised |-> "none", value |-> <<>>]
    ELSE IF Len(remote_data) > 1 THEN [raised |-> "RuntimeError", value |-> <<>>]
    ELSE IF remote_data[1] = NoDatabag THEN [raised |-> "none", value |-> <<>>]
    ELSE load_from_databag(remote_data[1])

\* no library call since the environment last changed
ApiNoCall == [op |-> "none"]

ApiIdle ==
    [data |-> TempoApiAppData("http://ingress-a/", "http://tempo-0.local:3200", "9096"),
     refresh_event |-> {},
     local |-> [r \in {} |-> NoDatabag],
     last |-> ApiNoCall]

\* no synthesizer has been called
\* units of the coordinator application
MaxReplicas == 2

ReplicaIds == 1..MaxReplicas

\* a unit with no publishing pass under way
NoPass ==
    [active |-> FALSE, was_leader |-> FALSE, fields |-> <<>>, pending |-> <<>>]

NoInflight == [u \in ReplicaIds |-> NoPass]

SynthIdle == [op |-> "none"]

AggIdle ==
    [done |-> FALSE, has_s3 |-> FALSE, is_ready |-> FALSE,
     unit_status |-> Status("unknown", <<>>),
     roles |-> EmptyCounter, addresses |-> EmptySetDict,
     is_coherent |-> FALSE, missing_roles |-> {}, is_recommended |-> FALSE,
     inconsistencies |-> <<>>, is_consistent |-> FALSE]

AggInit ==
    /\ relations = [r \in {} |-> [app_data |-> EmptyDatabag, units |-> <<>>]]
    /\ s3 = EmptyDatabag
    /\ leader = FALSE
    /\ cert = CertDisabled
    /\ tracing = [r \in {} |-> {}]
    /\ ingress = IngressNone
    /\ cluster_databag = [r \in {} |-> EmptyDatabag]
    /\ tracing_databag = [r \in {} |-> {}]
    /\ ingress_cfg = NoIngressConfig
    /\ charm = CharmIdle
    /\ agg = AggIdle
    /\ synth = SynthIdle
    /\ api = ApiIdle
    /\ inflight = NoInflight

\* a worker application is related; its leader has set the app databag
AggRelationJoined(r, app_data) ==
    /\ ~agg.done
    /\ r \notin DOMAIN relations
    /\ relations' = [x \in (DOMAIN relations) \cup {r} |->
                        IF x = r THEN [app_data |-> app_data, units |-> <<>>]
                        ELSE relations[x]]
    /\ UNCHANGED <<s3, leader, cert, tracing, ingress, cluster_databag,
                   tracing_databag, ingress_cfg, charm, agg, synth, api, inflight>>

\* a worker unit joins a relation, with or without its address published
AggUnitJoined(r, has_address) ==
    /\ ~agg.done
    /\ r \in DOMAIN relations
    /\ TotalUnits(relations) < MaxUnits
    /\ relations' = [relations EXCEPT ![r].units =
                        Append(@, WorkerUnitDatabag(r, Len(@) + 1, has_address))]
    /\ UNCHANGED <<s3, leader, cert, tracing, ingress, cluster_databag,
                   tracing_databag, ingress_cfg, charm, agg, synth, api, inflight>>

\* TempoCoordinator(cluster_provider), get_deployment_inconsistencies(has_s3)
\* with the charm's _is_consistent, gather_addresses_by_role() and the unit
\* status collected, on the current snapshot; is_ready is Tempo.is_ready
Aggregate(has_s3, is_ready) ==
    /\ ~agg.done
    /\ LET coordinator == Coordinator(relations)
       IN agg' = [done |-> TRUE, has_s3 |-> has_s3, is_ready |-> is_ready,
                  unit_status |->
                      on_collect_unit_status(
                          is_ready,
                          get_deployment_inconsistencies(coordinator, has_s3),
                          has_workers(relations),
                          coordinator.is_recommended),
                  roles |-> coordinator.roles,
                  addresses |-> gather_addresses_by_role(relations),
                  is_coherent |-> coordinator.is_coherent,
                  missing_roles |-> coordinator.missing_roles,
                  is_recommended |-> coordinator.is_recommended,
                  inconsistencies |->
                      get_deployment_inconsistencies(coordinator, has_s3),
                  is_consistent |->
                      IsConsistent(get_deployment_inconsistencies(coordinator, has_s3))]
    /\ UNCHANGED <<relations, s3, leader, cert, tracing, ingress,
                   cluster_databag, tracing_databag, ingress_cfg, charm, synth, api, inflight>>

AggNext ==
    \/ \E r \in RelIds, app_data \in AppDataChoices : AggRelationJoined(r, app_data)
    \/ \E r \in RelIds, has_address \in BOOLEAN : AggUnitJoined(r, has_address)
    \/ \E has_s3 \in BOOLEAN, is_ready \in BOOLEAN : Aggregate(has_s3, is_ready)

AggSpec == AggInit /\ [][AggNext]_vars

(***************************************************************************)
(* Spec: the Juju environment changes between dispatches; every hook is    *)
(* delivered to a fresh charm instance.                                    *)
(***************************************************************************)
\* tempo-cluster relations of the deployment
MaxClusterRelations == 1
\* tracing relations of the deployment
MaxTracingRelations == 1

ClusterRelIds == 1..MaxClusterRelations
TracingRelIds == 1..MaxTracingRelations

\* worker application databags: a role that makes the deployment coherent
\* and one that does not
ClusterAppDataChoices ==
    {RoleDatabag(JsonStr("all")), RoleDatabag(JsonStr("ingester"))}

Init == AggInit

\* env: a worker application with one unit is related
ClusterRelationCreated(r, app_data) ==
    /\ r \notin DOMAIN relations
    /\ relations' = [x \in (DOMAIN relations) \cup {r} |->
                        IF x = r
                        THEN [app_data |-> app_data,
                              units |-> <<WorkerUnitDatabag(r, 1, TRUE)>>]
                        ELSE relations[x]]
    /\ cluster_databag' = [x \in (DOMAIN relations) \cup {r} |->
                              IF x = r THEN EmptyDatabag ELSE cluster_databag[x]]
    /\ charm' = CharmIdle
    /\ UNCHANGED <<s3, leader, cert, tracing, ingress, tracing_databag,
                   ingress_cfg, agg, synth, api, inflight>>

\* env: a worker application is removed, and the relation's databags with it
ClusterRelationBroken(r) ==
    /\ r \in DOMAIN relations
    /\ relations' = [x \in (DOMAIN relations) \ {r} |-> relations[x]]
    /\ cluster_databag' = [x \in (DOMAIN relations) \ {r} |-> cluster_databag[x]]
    /\ charm' = CharmIdle
    /\ UNCHANGED <<s3, leader, cert, tracing, ingress, tracing_databag,
                   ingress_cfg, agg, synth, api, inflight>>

\* env: the s3 integrator publishes or withdraws connection info
S3Changed(info) ==
    /\ info # s3
    /\ s3' = info
    /\ charm' = CharmIdle
    /\ UNCHANGED <<relations, leader, cert, tracing, ingress, cluster_databag,
                   tracing_databag, ingress_cfg, agg, synth, api, inflight>>

\* env: this unit gains or loses leadership
LeaderChanged ==
    /\ leader' = ~leader
    /\ charm' = CharmIdle
    /\ UNCHANGED <<relations, s3, cert, tracing, ingress, cluster_databag,
                   tracing_databag, ingress_cfg, agg, synth, api, inflight>>

\* env: the certificate handler's material changes
CertChanged(c) ==
    /\ c # cert
    /\ cert' = c
    /\ charm' = CharmIdle
    /\ UNCHANGED <<relations, s3, leader, tracing, ingress, cluster_databag,
                   tracing_databag, ingress_cfg, agg, synth, api, inflight>>

\* env: a requirer relates over tracing and requests receivers
TracingRelationCreated(r, requested) ==
    /\ r \notin DOMAIN tracing
    /\ tracing' = [x \in (DOMAIN tracing) \cup {r} |->
                      IF x = r THEN requested ELSE tracing[x]]
    /\ tracing_databag' = [x \in (DOMAIN tracing) \cup {r} |->
                              IF x = r THEN <<>> ELSE tracing_databag[x]]
    /\ charm' = CharmIdle
    /\ UNCHANGED <<relations, s3, leader, cert, ingress, cluster_databag,
                   ingress_cfg, agg, synth, api, inflight>>

\* env: a tracing relation is removed
TracingRelationBroken(r) ==
    /\ r \in DOMAIN tracing
    /\ tracing' = [x \in (DOMAIN tracing) \ {r} |-> tracing[x]]
    /\ tracing_databag' = [x \in (DOMAIN tracing) \ {r} |-> tracing_databag[x]]
    /\ charm' = CharmIdle
    /\ UNCHANGED <<relations, s3, leader, cert, ingress, cluster_databag,
                   ingress_cfg, agg, synth, api, inflight>>

\* env: the ingress relation changes; what was submitted goes with the
\* relation when it is removed
IngressChanged(i) ==
    /\ i # ingress
    /\ ingress' = i
    /\ ingress_cfg' = IF i.is_ready THEN ingress_cfg ELSE NoIngressConfig
    /\ charm' = CharmIdle
    /\ UNCHANGED <<relations, s3, leader, cert, tracing, cluster_databag,
                   tracing_databag, agg, synth, api, inflight>>

Next ==
    \/ \E r \in ClusterRelIds, app_data \in ClusterAppDataChoices :
          ClusterRelationCreated(r, app_data)
    \/ \E r \in ClusterRelIds : ClusterRelationBroken(r)
    \/ \E info \in S3Choices : S3Changed(info)
    \/ LeaderChanged
    \/ \E c \in CertChoices : CertChanged(c)
    \/ \E r \in TracingRelIds, requested \in TracingRequestChoices :
          TracingRelationCreated(r, requested)
    \/ \E r \in TracingRelIds : TracingRelationBroken(r)
    \/ \E i \in IngressChoices : IngressChanged(i)
    \/ Dispatch

Spec == Init /\ [][Next]_vars

(***************************************************************************)
(* FaultSpec: several worker applications come and go, s3, leadership and  *)
(* the certificate change, and hooks are dispatched in which a call of     *)
(* _update_tempo_cluster on a collaborator may raise.                      *)
(***************************************************************************)
\* worker applications of the deployment
MaxWorkerApps == 2

WorkerAppIds == 1..MaxWorkerApps

\* the certificate handler is enabled and the certificate not issued yet
CertPending ==
    [enabled |-> TRUE, server_cert |-> <<>>,
     private_key |-> <<"PRIVATE_KEY">>, ca_cert |-> <<>>]

FaultCertChoices == CertChoices \cup {CertPending}

\* One dispatch in which one of the calls of Faults may raise
FaultyDispatch ==
    \E inconsistencies \in
            {get_deployment_inconsistencies(Coordinator(relations), s3_ready)} :
       \E tuples \in {TupleOf(requested_receivers)} :
          \E body \in HandlerBodies : Pass(body, inconsistencies, tuples, Faults)

FaultNext ==
    \/ \E r \in WorkerAppIds, app_data \in ClusterAppDataChoices :
          ClusterRelationCreated(r, app_data)
    \/ \E r \in WorkerAppIds : ClusterRelationBroken(r)
    \/ \E info \in S3Choices : S3Changed(info)
    \/ LeaderChanged
    \/ \E c \in FaultCertChoices : CertChanged(c)
    \/ FaultyDispatch

FaultSpec == Init /\ [][FaultNext]_vars

(***************************************************************************)
(* ReplicaSpec: the units of the coordinator application run their hooks   *)
(* side by side on a consistent deployment.  A pass of                     *)
(* _update_tempo_cluster reads the unit's leadership and certificate when  *)
(* it begins and, past its guards, holds one record it dumps into the      *)
(* tempo-cluster relations one after the other; passes of other units,     *)
(* changes of leadership and of the environment come in between.  The      *)
(* units keep no state between hooks: leader and cert are those of the     *)
(* unit whose pass begins next.                                            *)
(***************************************************************************)
\* One pass of _update_tempo_cluster begins on a unit with no pass under
\* way: past the guards, the record is built and the relations of
\* self._relations are queued for publish_data
PassBegin(u) ==
    /\ ~inflight[u].active
    /\ \E inconsistencies \in
            {get_deployment_inconsistencies(Coordinator(relations), s3_ready)} :
         \E requested \in TupleOf(requested_receivers) :
            \E h \in {update_tempo_cluster(World(requested),
                                           IsConsistent(inconsistencies))} :
               inflight' = [inflight EXCEPT ![u] =
                               IF "publish_data" \in h.calls /\ ~h.error
                               THEN [active |-> TRUE, was_leader |-> leader,
                                     fields |-> PublishKwargs,
                                     pending |-> ProviderRelations(relations)]
                               ELSE NoPass]
    /\ charm' = CharmIdle
    /\ UNCHANGED <<relations, s3, leader, cert, tracing, ingress, cluster_databag,
                   tracing_databag, ingress_cfg, agg, synth, api>>

\* publish_data of a pass under way reaches its next relation: one dump
\* of the record of the pass into the relation's databag as it is now
PassLand(u) ==
    /\ inflight[u].active
    /\ inflight[u].pending # <<>>
    /\ \E r \in {Head(inflight[u].pending)} :
          cluster_databag' =
             [x \in DOMAIN cluster_databag |->
                 IF x = r THEN dump(inflight[u].fields, cluster_databag[x])
                 ELSE cluster_databag[x]]
    /\ inflight' = [inflight EXCEPT ![u] =
                       IF Tail(inflight[u].pending) = <<>> THEN NoPass
                       ELSE [@ EXCEPT !.pending = Tail(@)]]
    /\ charm' = CharmIdle
    /\ UNCHANGED <<relations, s3, leader, cert, tracing, ingress,
                   tracing_databag, ingress_cfg, agg, synth, api>>

ReplicaInit ==
    /\ relations = [r \in WorkerAppIds |->
                       [app_data |-> RoleDatabag(JsonStr("all")),
                        units |-> <<WorkerUnitDatabag(r, 1, TRUE)>>]]
    /\ s3 = S3Info(S3Fields)
    /\ leader = FALSE
    /\ cert = CertDisabled
    /\ tracing = [r \in {} |-> {}]
    /\ ingress = IngressNone
    /\ cluster_databag = [r \in WorkerAppIds |-> EmptyDatabag]
    /\ tracing_databag = [r \in {} |-> {}]
    /\ ingress_cfg = NoIngressConfig
    /\ charm = CharmIdle
    /\ agg = AggIdle
    /\ synth = SynthIdle
    /\ api = ApiIdle
    /\ inflight = NoInflight

ReplicaNext ==
    \/ \E info \in S3Choices : S3Changed(info)
    \/ LeaderChanged
    \/ \E c \in CertChoices : CertChanged(c)
    \/ \E u \in ReplicaIds : PassBegin(u)
    \/ \E u \in ReplicaIds : PassLand(u)

ReplicaSpec == ReplicaInit /\ [][ReplicaNext]_vars

(***************************************************************************)
(* TracingSpec: requirers come and go on the tracing endpoint of a         *)
(* deployment that stays consistent (one worker application running every  *)
(* role, s3 related), leadership moves, and hooks are dispatched.          *)
(***************************************************************************)
\* tracing relations of the deployment
MaxRequirers == 2

RequirerIds == 1..MaxRequirers

\* what a requirer may request: a receiver nobody else asks for, the one
\* that is always enabled, and a pair with a protocol that is not supported
RequirerRequestChoices == {{"otlp_grpc"}, {"otlp_http"}, {"zipkin", "tempo"}}

TracingInit ==
    /\ relations = [r \in {1} |->
                       [app_data |-> RoleDatabag(JsonStr("all")),
                        units |-> <<WorkerUnitDatabag(1, 1, TRUE)>>]]
    /\ s3 = S3Info(S3Fields)
    /\ leader = FALSE
    /\ cert = CertDisabled
    /\ tracing = [r \in {} |-> {}]
    /\ ingress = IngressNone
    /\ cluster_databag = [r \in {1} |-> EmptyDatabag]
    /\ tracing_databag = [r \in {} |-> {}]
    /\ ingress_cfg = NoIngressConfig
    /\ charm = CharmIdle
    /\ agg = AggIdle
    /\ synth = SynthIdle
    /\ api = ApiIdle
    /\ inflight = NoInflight

TracingNext ==
    \/ \E r \in RequirerIds, requested \in RequirerRequestChoices :
          TracingRelationCreated(r, requested)
    \/ \E r \in RequirerIds : TracingRelationBroken(r)
    \/ LeaderChanged
    \/ Dispatch

TracingSpec == TracingInit /\ [][TracingNext]_vars

(***************************************************************************)
(* SynthSpec: the config synthesizers applied to bounded inputs.  synth    *)
(* records the last call: the synthesizer, its arguments and its result.   *)
(***************************************************************************)
\* distinct worker addresses in the input of a synthesizer
MaxAddresses == 4

SynthAddresses == {WorkerAddress(1, i) : i \in 1..MaxAddresses}

\* the address maps gather_addresses_by_role can return over the given
\* roles and addresses: a defaultdict(set) has a key for every role some
\* unit has published an address for, and no other
AddressMaps(roles, addresses) ==
    UNION {[R -> (SUBSET addresses) \ {{}}] : R \in SUBSET roles}

\* dict.get(role, set())
AddressesOf(roles_addresses, role) ==
    IF role \in DOMAIN roles_addresses THEN roles_addresses[role] ELSE {}

Max(a, b) == IF a >= b THEN a ELSE b

\* a replication factor that is 3 from three ingesters on and 1 below
build_ingester_config_ThreeOrOne(roles_addresses) ==
    [lifecycler |-> [ring |-> [replication_factor |->
        IF Cardinality(AddressesOf(roles_addresses, "ingester")) >= 3 THEN 3 ELSE 1]]]

\* Tempo._build_ingester_config
build_ingester_config(roles_addresses) ==
    [lifecycler |-> [ring |-> [replication_factor |->
        Max(1, Cardinality(AddressesOf(roles_addresses, "ingester")))]]]

\* the builders keep no state between calls: each is applied to an input
\* of its bounded set, from the state in which none has been called
SynthUnchanged ==
    UNCHANGED <<relations, s3, leader, cert, tracing, ingress, cluster_databag,
                tracing_databag, ingress_cfg, charm, agg, api, inflight>>

\* a call of Tempo._build_ingester_config
BuildIngesterConfig(roles_addresses) ==
    /\ synth = SynthIdle
    /\ synth' = [op |-> "_build_ingester_config",
                 roles_addresses |-> roles_addresses,
                 result |-> build_ingester_config(roles_addresses)]
    /\ SynthUnchanged

\* distinct worker addresses in a snapshot whose peers are gathered
MaxPeers == 3

PeerAddresses == {WorkerAddress(1, i) : i \in 1..MaxPeers}
PeerRoles == {"all", "querier"}

\* the port of the gossip ring
memberlist_port == 7946

\* f"{peer}:{port}", kept as the pair it is formatted from
HostPort(host, port) == [host |-> host, port |-> port]

\* Tempo._build_memberlist_config: one join member per peer, in the order
\* the peers are handed over
build_memberlist_config(peers) ==
    [abort_if_cluster_join_fails |-> FALSE,
     bind_port |-> memberlist_port,
     join_members |-> [i \in DOMAIN peers |-> HostPort(peers[i], memberlist_port)]]

\* a call of Tempo._build_memberlist_config on the peers gathered by
\* gather_addresses from a snapshot with the given addresses by role; peers
\* is the set gather_addresses returns in the order the process iterates it
\* (the next dispatch builds the config again from the same snapshot)
BuildMemberlistConfig(addresses_by_role, peers) ==
    /\ \/ synth = SynthIdle
       \/ /\ synth.op = "_build_memberlist_config"
          /\ synth.addresses_by_role = addresses_by_role
    /\ synth' = [op |-> "_build_memberlist_config",
                 addresses_by_role |-> addresses_by_role,
                 result |-> build_memberlist_config(peers)]
    /\ SynthUnchanged

\* the protocols a caller may name: the supported ones and one that is not
\* in the table
ProtocolChoices == (DOMAIN receiver_ports) \cup {"tempo"}

\* length of the protocol tuples handed to the distributor config builder
MaxProtocols == 3

ProtocolTuples == UNION {[1..n -> ProtocolChoices] : n \in 0..MaxProtocols}

Range(t) == {t[i] : i \in DOMAIN t}

\* where the receiver of a protocol sits in the distributor config
ReceiverPath(protocol) ==
    CASE protocol = "zipkin" -> <<"zipkin">>
      [] protocol = "otlp_grpc" -> <<"otlp", "protocols", "grpc">>
      [] protocol = "otlp_http" -> <<"otlp", "protocols", "http">>
      [] protocol = "jaeger_thrift_http" -> <<"jaeger", "protocols", "thrift_http">>
      [] protocol = "jaeger_grpc" -> <<"jaeger", "protocols", "grpc">>

\* the tls block of a receiver
ReceiverTls ==
    [ca_file |-> "/usr/local/share/ca-certificates/ca.crt",
     cert_file |-> "/etc/worker/server.cert",
     key_file |-> "/etc/worker/private.key"]

\* a receiver entry that never carries a tls block
ReceiverEntry_NoTls(protocol, use_tls) ==
    [endpoint |-> HostPort("0.0.0.0", receiver_ports[protocol])]

\* the entry of one receiver
ReceiverEntry(protocol, use_tls) ==
    IF use_tls
    THEN [endpoint |-> HostPort("0.0.0.0", receiver_ports[protocol]),
          tls |-> ReceiverTls]
    ELSE [endpoint |-> HostPort("0.0.0.0", receiver_ports[protocol])]

\* the receivers of a set of supported protocols
ReceiversConfig(receivers_set, use_tls) ==
    [path \in {ReceiverPath(protocol) : protocol \in receivers_set} |->
        ReceiverEntry(CHOOSE protocol \in receivers_set : ReceiverPath(protocol) = path,
                      use_tls)]

\* Tempo._build_distributor_config: the protocols are taken as a set, and
\* a protocol that is not in the table gets no receiver
build_distributor_config(protocols, use_tls) ==
    [raised |-> FALSE,
     receivers |-> ReceiversConfig(Range(protocols) \cap DOMAIN receiver_ports, use_tls)]

\* a call of Tempo._build_distributor_config
BuildDistributorConfig(protocols, use_tls) ==
    /\ synth = SynthIdle
    /\ synth' = [op |-> "_build_distributor_config",
                 protocols |-> protocols, use_tls |-> use_tls,
                 result |-> build_distributor_config(protocols, use_tls)]
    /\ SynthUnchanged

\* what the requirers of the tracing relations may ask for
RequestChoices == SUBSET {"otlp_grpc", "zipkin", "tempo"}

\* a call of TempoCoordinatorCharm._requested_receivers while the tracing
\* relations request the given protocols
RequestedReceiversCall(requested, result) ==
    /\ synth = SynthIdle
    /\ result \in TupleOf(RequestedReceivers(requested))
    /\ synth' = [op |-> "_requested_receivers", requested |-> requested,
                 result |-> result]
    /\ SynthUnchanged

\* units of the send-remote-write relation that have published a target
MaxRemoteWrite == 2

\* the remote-write target unit i has published
RemoteWriteTarget(i) ==
    [url |-> <<"http://prometheus-0:3000/api/write", "http://prometheus-1:3000/api/write",
               "http://prometheus-2:3000/api/write">>[i]]

\* the targets supplied to the config builder: those of the first n units
RemoteWriteLists == {[i \in 1..n |-> RemoteWriteTarget(i)] : n \in 0..MaxRemoteWrite}

\* the sections every config has
BaseSections ==
    {"auth_enabled", "server", "distributor", "ingester", "memberlist", "compactor",
     "querier", "query_frontend", "storage"}

\* the metrics_generator section
MetricsGenerator(remote_write) == [storage |-> [remote_write |-> remote_write]]

\* the overrides section, which turns the metrics generator's processors on
Overrides == [defaults |-> [metrics_generator |-> [processors |-> {"span-metrics"}]]]

\* a variant that always emits the two sections, empty without a target
build_AlwaysSections(remote_write, use_tls) ==
    [section \in BaseSections \cup {"metrics_generator", "overrides"} |->
        CASE section = "metrics_generator" -> MetricsGenerator(remote_write)
          [] section = "overrides" -> Overrides
          [] OTHER -> [use_tls |-> use_tls]]

\* TempoConfigBuilderDefault.build, as far as the metrics generator goes:
\* the two sections are added when a remote-write target is supplied
build(remote_write, use_tls) ==
    [section \in BaseSections \cup
                 (IF remote_write # <<>> THEN {"metrics_generator", "overrides"} ELSE {}) |->
        CASE section = "metrics_generator" -> MetricsGenerator(remote_write)
          [] section = "overrides" -> Overrides
          [] OTHER -> [use_tls |-> use_tls]]

\* a call of TempoConfigBuilderDefault.build; yaml.safe_load of the result
\* gives the sections back
Build(remote_write, use_tls) ==
    /\ synth = SynthIdle
    /\ synth' = [op |-> "build", remote_write |-> remote_write, use_tls |-> use_tls,
                 result |-> build(remote_write, use_tls)]
    /\ SynthUnchanged

(***************************************************************************)
(* The routing table: the upstream pools and the listeners of the proxy.   *)
(***************************************************************************)
\* Tempo.server_ports
server_ports ==
    [p \in {"tempo_http", "tempo_grpc"} |->
        CASE p = "tempo_http" -> 3200
          [] p = "tempo_grpc" -> 9096]

\* {**Tempo.receiver_ports, **Tempo.server_ports}
all_ports ==
    [p \in (DOMAIN receiver_ports) \cup (DOMAIN server_ports) |->
        IF p \in DOMAIN server_ports THEN server_ports[p] ELSE receiver_ports[p]]

\* the characters of a protocol name, a word or a separator at a time
Spell(protocol) ==
    CASE protocol = "zipkin" -> <<"zipkin">>
      [] protocol = "otlp_grpc" -> <<"otlp", "_", "grpc">>
      [] protocol = "otlp_http" -> <<"otlp", "_", "http">>
      [] protocol = "jaeger_thrift_http" -> <<"jaeger", "_", "thrift", "_", "http">>
      [] protocol = "jaeger_grpc" -> <<"jaeger", "_", "grpc">>
      [] protocol = "tempo_http" -> <<"tempo", "_", "http">>
      [] protocol = "tempo_grpc" -> <<"tempo", "_", "grpc">>

\* str.replace(old, new)
Replace(s, old, new) == [i \in DOMAIN s |-> IF s[i] = old THEN new ELSE s[i]]

\* {protocol.replace("_", "-"): port for protocol, port in ports.items()}
Upstreams(ports) ==
    [name \in {Replace(Spell(p), "_", "-") : p \in DOMAIN ports} |->
        ports[CHOOSE p \in DOMAIN ports : Replace(Spell(p), "_", "-") = name]]

\* a variant with one pool for each role, named after the role
roles_to_upstreams_PerRole ==
    [role \in {"distributor", "query-frontend"} |->
        IF role = "distributor"
        THEN [name \in {<<"distributor">>} |-> receiver_ports["otlp_grpc"]]
        ELSE [name \in {<<"query", "-", "frontend">>} |-> server_ports["tempo_http"]]]

\* a variant that names the pools after the protocols as they are
roles_to_upstreams_Unsanitised ==
    [role \in {"distributor", "query-frontend"} |->
        LET ports == IF role = "distributor" THEN receiver_ports ELSE server_ports
        IN  [name \in {Spell(p) : p \in DOMAIN ports} |->
                ports[CHOOSE p \in DOMAIN ports : Spell(p) = name]]]

\* NginxHelper.roles_to_upstreams
roles_to_upstreams ==
    [role \in {"distributor", "query-frontend"} |->
        IF role = "distributor" THEN Upstreams(receiver_ports) ELSE Upstreams(server_ports)]

\* receiver_protocol_to_transport_protocol
receiver_protocol_to_transport_protocol ==
    [p \in DOMAIN receiver_ports |->
        IF p \in {"otlp_grpc", "jaeger_grpc"} THEN "grpc" ELSE "http"]

\* a variant that asks the receivers' transport table only
is_protocol_grpc_ReceiversOnly(protocol) ==
    /\ protocol \in DOMAIN receiver_protocol_to_transport_protocol
    /\ receiver_protocol_to_transport_protocol[protocol] = "grpc"

\* NginxHelper._is_protocol_grpc
is_protocol_grpc(protocol) ==
    \/ protocol = "tempo_grpc"
    \/ /\ protocol \in DOMAIN receiver_protocol_to_transport_protocol
       /\ receiver_protocol_to_transport_protocol[protocol] = "grpc"

\* NginxLocationConfig(upstream=upstream, is_grpc=is_grpc)
NginxLocationConfig(upstream, is_grpc) == [upstream |-> upstream, is_grpc |-> is_grpc]

\* NginxHelper.server_ports_to_locations
server_ports_to_locations ==
    [port \in {all_ports[p] : p \in DOMAIN all_ports} |->
        LET protocol == CHOOSE p \in DOMAIN all_ports : all_ports[p] = port
        IN  <<NginxLocationConfig(Replace(Spell(protocol), "_", "-"),
                                  is_protocol_grpc(protocol))>>]

\* the addresses that serve a role: its own and those of the units that
\* run every role
RoleAddresses(addresses_by_role, role) ==
    AddressesOf(addresses_by_role, role) \cup AddressesOf(addresses_by_role, "all")

\* the upstream blocks of the proxy configuration: one pool for every
\* upstream of every role that has addresses, with a server for every
\* address
NginxUpstreams(addresses_by_role) ==
    UNION {{[name |-> name,
             servers |-> {[address |-> a, port |-> roles_to_upstreams[role][name]] :
                             a \in RoleAddresses(addresses_by_role, role)}] :
               name \in DOMAIN roles_to_upstreams[role]} :
             role \in {r \in DOMAIN roles_to_upstreams :
                          RoleAddresses(addresses_by_role, r) # {}}}

\* a variant with a server block for every exposed port
NginxServers_EveryPort(addresses_by_role) ==
    {[listen |-> {[ipv6 |-> FALSE, port |-> port], [ipv6 |-> TRUE, port |-> port]},
      location |-> [pass |-> IF server_ports_to_locations[port][1].is_grpc
                             THEN "grpc_pass" ELSE "proxy_pass",
                    upstream |-> server_ports_to_locations[port][1].upstream]] :
        port \in DOMAIN server_ports_to_locations}

\* the server blocks of the proxy configuration: for every exposed port
\* whose pool is there, a listener on the port over IPv4 and over IPv6 and
\* a location that passes to the pool
NginxServers(addresses_by_role) ==
    {[listen |-> {[ipv6 |-> FALSE, port |-> port], [ipv6 |-> TRUE, port |-> port]},
      location |-> [pass |-> IF server_ports_to_locations[port][1].is_grpc
                             THEN "grpc_pass" ELSE "proxy_pass",
                    upstream |-> server_ports_to_locations[port][1].upstream]] :
        port \in {p \in DOMAIN server_ports_to_locations :
                     server_ports_to_locations[p][1].upstream \in
                         {u.name : u \in NginxUpstreams(addresses_by_role)}}}

\* a call of Nginx.config on the addresses gather_addresses_by_role returns
NginxConfig(addresses_by_role) ==
    /\ synth = SynthIdle
    /\ synth' = [op |-> "nginx_config", addresses_by_role |-> addresses_by_role,
                 upstreams |-> NginxUpstreams(addresses_by_role),
                 servers |-> NginxServers(addresses_by_role)]
    /\ SynthUnchanged

MaxUpstreamAddresses == 2

\* the addresses the workers behind the proxy can have
UpstreamAddresses == {WorkerAddress(2, i) : i \in 1..MaxUpstreamAddresses}

\* the roles of the address maps the proxy configuration is built from
UpstreamRoles == {"all", "distributor", "query-frontend", "ingester"}

(***************************************************************************)
(* A whole pass on a snapshot of members: the verdict, and when it is      *)
(* clean the replication factor and the routing table.                     *)
(***************************************************************************)
\* units a worker application of the snapshot may have
MaxMembers == 2

\* the address unit i of the worker application with the role publishes
MemberAddress(role, i) ==
    CASE role = "querier" -> <<"q1", "q2", "q3">>[i]
      [] role = "query-frontend" -> <<"f1", "f2", "f3">>[i]
      [] role = "ingester" -> <<"i1", "i2", "i3">>[i]
      [] role = "distributor" -> <<"d1", "d2", "d3">>[i]
      [] role = "compactor" -> <<"c1", "c2", "c3">>[i]
      [] role = "metrics-generator" -> <<"m1", "m2", "m3">>[i]

\* the members of a snapshot: how many units each role's application has
MemberCounts == [{all_nonmeta[i] : i \in DOMAIN all_nonmeta} -> 0..MaxMembers]

\* the tempo-cluster relations of a snapshot: one for each application that
\* has units, every unit with its address published
SnapshotRelations(members) ==
    [r \in {i \in DOMAIN all_nonmeta : members[all_nonmeta[i]] > 0} |->
        [app_data |-> RoleDatabag(JsonStr(all_nonmeta[r])),
         units |-> [i \in 1..members[all_nonmeta[r]] |->
                       UnitDatabag(JsonStr(MemberAddress(all_nonmeta[r], i)))]]]

\* a pass on the snapshot: TempoCoordinator(cluster_provider) and its
\* inconsistencies, and when there is none the ingester config and the
\* proxy configuration built from gather_addresses_by_role()
ReconcilePass(members, has_s3) ==
    /\ synth = SynthIdle
    /\ \E rels \in {SnapshotRelations(members)} :
       \E coordinator \in {Coordinator(rels)} :
       \E inconsistencies \in {get_deployment_inconsistencies(coordinator, has_s3)} :
       \E addresses \in {gather_addresses_by_role(rels)} :
          synth' = [op |-> "pass", members |-> members, has_s3 |-> has_s3,
                    is_coherent |-> coordinator.is_coherent,
                    inconsistencies |-> inconsistencies,
                    synthesized |-> IsConsistent(inconsistencies),
                    addresses |-> addresses,
                    ingester |-> IF IsConsistent(inconsistencies)
                                 THEN build_ingester_config(addresses)
                                 ELSE build_ingester_config(EmptySetDict),
                    upstreams |-> IF IsConsistent(inconsistencies)
                                  THEN NginxUpstreams(addresses) ELSE {},
                    servers |-> IF IsConsistent(inconsistencies)
                                THEN NginxServers(addresses) ELSE {}]
    /\ SynthUnchanged

\* the roles of the address maps the backend config builders are given
BackendRoles == {"all", "ingester", "querier"}

SynthInit == AggInit

SynthNext ==
    \/ \E roles_addresses \in AddressMaps(BackendRoles, SynthAddresses) :
          BuildIngesterConfig(roles_addresses)
    \/ \E addresses_by_role \in AddressMaps(PeerRoles, PeerAddresses) :
          \E peers \in TupleOf(UnionOfAddresses(addresses_by_role)) :
             BuildMemberlistConfig(addresses_by_role, peers)
    \/ \E protocols \in ProtocolTuples, use_tls \in BOOLEAN :
          BuildDistributorConfig(protocols, use_tls)
    \/ \E requested \in RequestChoices :
          \E result \in TupleOf(RequestedReceivers(requested)) :
             RequestedReceiversCall(requested, result)
    \/ \E remote_write \in RemoteWriteLists, use_tls \in BOOLEAN :
          Build(remote_write, use_tls)
    \/ \E addresses_by_role \in AddressMaps(UpstreamRoles, UpstreamAddresses) :
          NginxConfig(addresses_by_role)
    \/ \E members \in MemberCounts, has_s3 \in BOOLEAN :
          ReconcilePass(members, has_s3)

SynthSpec == SynthInit /\ [][SynthNext]_vars

(***************************************************************************)
(* ApiSpec: tempo-api relations come and go, leadership moves, the data    *)
(* the provider is constructed with changes, events are dispatched to the  *)
(* provider's charm and a requirer reads the data.                         *)
(***************************************************************************)
ApiUnchanged ==
    UNCHANGED <<relations, s3, cert, tracing, ingress, cluster_databag,
                tracing_databag, ingress_cfg, charm, agg, synth, inflight>>

\* env: a requirer relates over tempo-api; the provider's databag of the
\* relation is empty, or holds what another revision of the charm wrote
ApiRelationCreated(r, databag) ==
    /\ r \notin DOMAIN api.local
    /\ api' = [api EXCEPT !.local = [x \in (DOMAIN api.local) \cup {r} |->
                                        IF x = r THEN databag ELSE api.local[x]],
                          !.last = ApiNoCall]
    /\ UNCHANGED leader
    /\ ApiUnchanged

\* env: a tempo-api relation is removed
ApiRelationBroken(r) ==
    /\ r \in DOMAIN api.local
    /\ api' = [api EXCEPT !.local = [x \in (DOMAIN api.local) \ {r} |-> api.local[x]],
                          !.last = ApiNoCall]
    /\ UNCHANGED leader
    /\ ApiUnchanged

\* env: this unit gains or loses leadership
ApiLeaderChanged ==
    /\ leader' = ~leader
    /\ api' = [api EXCEPT !.last = ApiNoCall]
    /\ ApiUnchanged

\* env: the urls the charm constructs the provider with change
ApiDataChanged(data) ==
    /\ data # api.data
    /\ api' = [api EXCEPT !.data = data, !.last = ApiNoCall]
    /\ UNCHANGED leader
    /\ ApiUnchanged

\* env: the charm is upgraded to a revision that constructs the provider
\* with another refresh_event
ApiRefreshChanged(refresh_event) ==
    /\ refresh_event # api.refresh_event
    /\ api' = [api EXCEPT !.refresh_event = refresh_event, !.last = ApiNoCall]
    /\ UNCHANGED leader
    /\ ApiUnchanged

\* one dispatch on the provider's side: TempoApiProvider.__init__ builds
\* self._data and registers the observers, and the handler runs when the
\* delivered event is observed
ApiDispatch(event) ==
    /\ api' = [api EXCEPT
                  !.local = IF event \in ProviderObserved(api.refresh_event)
                            THEN handle_send_data_event(@, api.data)
                            ELSE @,
                  !.last = [op |-> "dispatch", event |-> event,
                            handled |-> event \in ProviderObserved(api.refresh_event)]]
    /\ UNCHANGED leader
    /\ ApiUnchanged

\* the requirer's charm calls get_data: it has no relation, or the
\* relation r to this provider and others to other providers
ApiGetData(remote_data) ==
    /\ api' = [api EXCEPT !.last = [op |-> "get_data", remote_data |-> remote_data,
                                    result |-> get_data(remote_data)]]
    /\ UNCHANGED leader
    /\ ApiUnchanged

\* the remote application databags a requirer's relations to other
\* providers may hold
OtherProviders ==
    UNION {[1..n -> {NoDatabag}
                    \cup {dump_to_databag(data, NoDatabag, TRUE) : data \in ApiDataChoices}] :
              n \in 0..MaxOtherProviders}

ApiInit == AggInit

ApiNext ==
    \/ \E r \in ApiRelIds, databag \in {NoDatabag, LegacyDatabag} :
          ApiRelationCreated(r, databag)
    \/ \E r \in ApiRelIds : ApiRelationBroken(r)
    \/ ApiLeaderChanged
    \/ \E data \in ApiDataChoices : ApiDataChanged(data)
    \/ \E refresh_event \in RefreshChoices : ApiRefreshChanged(refresh_event)
    \/ \E event \in ApiEvents : ApiDispatch(event)
    \/ \E remote_data \in {<<>>} \cup {<<api.local[r]>> \o others :
                                       r \in DOMAIN api.local, others \in OtherProviders} :
          ApiGetData(remote_data)

ApiSpec == ApiInit /\ [][ApiNext]_vars

(***************************************************************************)
(* What a snapshot holds, read off the databags independently of the       *)
(* aggregation functions.                                                  *)
(***************************************************************************)
ConcreteRoles ==
    {"querier", "query-frontend", "ingester", "distributor", "compactor",
     "metrics-generator"}

\* the app databag holds a decodable role of the closed set
WellFormedApp(databag) ==
    /\ "role" \in DOMAIN databag
    /\ databag["role"].t = "str"
    /\ databag["role"].v \in ConcreteRoles \cup {"all"}

\* the unit databag holds a topology and an address
WellFormedUnit(databag) ==
    /\ {"juju_topology", "address"} \subseteq DOMAIN databag
    /\ databag["juju_topology"].t = "obj"
    /\ databag["address"].t = "str"

RelsWithRole(role) ==
    {r \in DOMAIN relations :
        WellFormedApp(relations[r].app_data) /\ relations[r].app_data["role"].v = role}

UnitsIn(S) == SumUnits(relations, S)

WellFormedIndexes(r) ==
    {i \in 1..Len(relations[r].units) : WellFormedUnit(relations[r].units[i])}

RECURSIVE WellFormedUnitsIn(_)
WellFormedUnitsIn(S) ==
    IF S = {} THEN 0
    ELSE LET r == CHOOSE x \in S : TRUE
         IN Cardinality(WellFormedIndexes(r)) + WellFormedUnitsIn(S \ {r})

AddressesIn(S) ==
    UNION {{relations[r].units[i]["address"].v : i \in WellFormedIndexes(r)} : r \in S}

\* members that contribute to a concrete role: its own workers and the 'all' workers
Members(role) == UnitsIn(RelsWithRole(role) \cup RelsWithRole("all"))

CountOf(role) == IF role \in DOMAIN agg.roles THEN agg.roles[role] ELSE 0

AddrSet(role) == IF role \in DOMAIN agg.addresses THEN agg.addresses[role] ELSE {}

\* the snapshot without the relations whose app databag is malformed
WellFormedRelations ==
    [r \in {x \in DOMAIN relations : WellFormedApp(relations[x].app_data)} |->
        relations[r]]

(***************************************************************************)
(* Claims on the reconciliation pass (Spec).  A step that leaves           *)
(* charm.dispatched true is one dispatch; the environment does not change  *)
(* in it.                                                                  *)
(***************************************************************************)
\* the verdict read off the current snapshot alone: s3 is ready and every
\* minimal role is held by a related worker application
RolesRelated ==
    {relations[r].app_data["role"].v :
        r \in {x \in DOMAIN relations : WellFormedApp(relations[x].app_data)}}

SnapshotClean ==
    /\ s3_ready
    /\ ("all" \in RolesRelated \/ ConcreteRoles \subseteq RolesRelated)

\* the record a publishing pass writes, on every tempo-cluster relation
FreshClusterDatabags == [r \in DOMAIN relations |-> PublishKwargs]

PublishingCalls ==
    {"generate_config", "publish_data", "publish_privkey", "publish_receivers",
     "submit_to_traefik"}

C3_NonLeaderPassWritesNothing ==
    [][(charm'.dispatched /\ ~leader) =>
          /\ cluster_databag' = cluster_databag
          /\ tracing_databag' = tracing_databag
          /\ ingress_cfg' = ingress_cfg
          /\ charm'.calls \cap PublishingCalls = {}]_vars

\* a non-leader pass with a clean verdict has run the certificate handler,
\* entering the three utility methods, while each of the three outputs
\* differs from what a leader would write
C3_Witness ==
    /\ charm.dispatched
    /\ ~leader
    /\ charm.is_consistent
    /\ charm.entered = {"_configure_ingress", "_update_tracing_relations",
                        "_update_tempo_cluster"}
    /\ cluster_databag # FreshClusterDatabags
    /\ DOMAIN tracing # {}
    /\ \A r \in DOMAIN tracing :
          \A t \in TupleOf(requested_receivers) : tracing_databag[r] # Receivers(t)
    /\ ingress.is_ready
    /\ ingress_cfg # IngressConfig

(***************************************************************************)
(* Claims on the aggregation (AggSpec).                                    *)
(***************************************************************************)

\* C4: isCoherent is true exactly when each of the six minimal roles has at
\* least one contributing member, and missingRoles is exactly the set of
\* minimal roles that have none.
C4_CoherentIffEveryRoleHasMember ==
    agg.done =>
        /\ agg.is_coherent <=> (\A role \in ConcreteRoles : Members(role) >= 1)
        /\ agg.missing_roles = {role \in ConcreteRoles : Members(role) = 0}

\* C5: the failure list holds the s3 failure exactly when has_s3 is false and
\* the incoherence failure (naming the missing roles) exactly when the roles
\* are not coherent, s3 first; it is empty iff s3 is present and the roles
\* are coherent, and only then is the deployment consistent.
C5_Inconsistencies ==
    agg.done =>
        LET f == agg.inconsistencies
            Has(x) == \E i \in 1..Len(f) : f[i] = x
        IN /\ Has(NoS3Failure) <=> ~agg.has_s3
           /\ Has(IncoherentFailure(agg.missing_roles)) <=> ~agg.is_coherent
           /\ Len(f) = (IF agg.has_s3 THEN 0 ELSE 1) + (IF agg.is_coherent THEN 0 ELSE 1)
           /\ (~agg.has_s3 /\ ~agg.is_coherent) => f[1] = NoS3Failure
           /\ (f = <<>>) <=> (agg.has_s3 /\ agg.is_coherent)
           /\ agg.is_consistent <=> (f = <<>>)

C5_Witness ==
    agg.done /\ ~agg.has_s3 /\ ~agg.is_coherent /\ Len(agg.inconsistencies) = 2

\* C6 as stated: a worker with role 'all' and n units adds n to each concrete
\* role's count and its addresses to each concrete role's address set.
C6_AllAddsCountsAndAddresses ==
    agg.done =>
        \A r \in RelsWithRole("all") : \A role \in ConcreteRoles :
            /\ CountOf(role) >= Len(relations[r].units)
            /\ AddressesIn({r}) \subseteq AddrSet(role)

\* C6 amended: a worker with role 'all' and n units adds n to each of the six
\* concrete role counts (duplicated, not divided); its addresses are kept
\* under the key 'all' of the address map and are not added to the concrete
\* roles' address sets.
C6_AllAddsCounts ==
    agg.done =>
        /\ \A role \in ConcreteRoles :
              /\ CountOf(role) = UnitsIn(RelsWithRole(role)) + UnitsIn(RelsWithRole("all"))
              /\ AddrSet(role) = AddressesIn(RelsWithRole(role))
        /\ AddrSet("all") = AddressesIn(RelsWithRole("all"))

C6_Witness ==
    /\ agg.done
    /\ \E r \in RelsWithRole("all") :
          Len(relations[r].units) >= 2 /\ Cardinality(AddressesIn({r})) >= 2

\* C7 as stated: 'all' is a key of neither the count map nor the address map.
C7_AllNeverAKey ==
    agg.done => "all" \notin DOMAIN agg.roles /\ "all" \notin DOMAIN agg.addresses

\* C7 amended: 'all' is never a key of the count map of gather_roles; the
\* address map of gather_addresses_by_role has the key 'all' exactly when a
\* worker with role 'all' has a unit with a valid address.
C7_AllNeverACountKey ==
    agg.done =>
        /\ "all" \notin DOMAIN agg.roles
        /\ "all" \in DOMAIN agg.addresses <=> AddressesIn(RelsWithRole("all")) # {}

C7_Witness ==
    /\ agg.done
    /\ \E r \in RelsWithRole("all") : Len(relations[r].units) >= 1
    /\ "all" \in DOMAIN agg.addresses

\* C8: a record with an unknown or undecodable role is excluded from the
\* counts and the address sets, and the valid records of the snapshot
\* contribute what they would contribute without it.
C8_MalformedRoleExcluded ==
    agg.done =>
        /\ DOMAIN agg.roles \subseteq ConcreteRoles \cup {"all"}
        /\ DOMAIN agg.addresses \subseteq ConcreteRoles \cup {"all"}
        /\ agg.roles = gather_roles(WellFormedRelations)
        /\ agg.addresses = gather_addresses_by_role(WellFormedRelations)

C8_Witness ==
    /\ agg.done
    /\ \E r \in DOMAIN relations :
          ~WellFormedApp(relations[r].app_data) /\ WellFormedIndexes(r) # {}
    /\ \E r \in DOMAIN relations :
          WellFormedApp(relations[r].app_data) /\ WellFormedIndexes(r) # {}

\* C9 as stated: a unit whose address is missing or invalid contributes
\* neither to its role's count nor to its role's address set.
C9_MalformedUnitNotCounted ==
    agg.done =>
        \A role \in ConcreteRoles :
            /\ CountOf(role) =
                   WellFormedUnitsIn(RelsWithRole(role) \cup RelsWithRole("all"))
            /\ AddrSet(role) = AddressesIn(RelsWithRole(role))

\* C9 amended: a unit whose address is missing or invalid is dropped from its
\* role's address set only, the other units of the same application and of
\* other applications still being aggregated; it is still counted, the count
\* of a role being the number of remote units of its relations.
C9_MalformedUnitDroppedFromAddresses ==
    agg.done =>
        \A r \in DOMAIN relations : WellFormedApp(relations[r].app_data) =>
            LET role == relations[r].app_data["role"].v
                units == relations[r].units
            IN /\ \A i \in 1..Len(units) :
                     IF WellFormedUnit(units[i])
                     THEN units[i]["address"].v \in AddrSet(role)
                     ELSE \A x \in AddrSet(role) : x \in AddressesIn(RelsWithRole(role))
               /\ \A counted \in (IF role = "all" THEN ConcreteRoles ELSE {role}) :
                     CountOf(counted) >= Len(units)

C9_Witness ==
    /\ agg.done
    /\ \E r \in DOMAIN relations :
          /\ WellFormedApp(relations[r].app_data)
          /\ Len(relations[r].units) >= 2
          /\ ~WellFormedUnit(relations[r].units[1])
          /\ WellFormedUnit(relations[r].units[2])

\* C10: isRecommended is true exactly when the ingester count is at least 3
\* and the count of every other role at least 1, an absent role counting 0.
C10_Recommended ==
    agg.done =>
        (agg.is_recommended <=>
            /\ CountOf("ingester") >= 3
            /\ \A role \in ConcreteRoles \ {"ingester"} : CountOf(role) >= 1)

C10_Witness == agg.done /\ agg.is_recommended

(***************************************************************************)
(* Claims on the unit status (AggSpec).                                    *)
(***************************************************************************)

\* C11: the unit status collected is Blocked exactly when the failure list
\* is non-empty (no s3, or incoherent roles), whether or not the workload is
\* ready; with an empty list and a ready workload it is Active, with the
\* degraded message exactly when the coordinator has workers and the
\* deployment is not the recommended one.
C11_BlockedIffFailures ==
    agg.done =>
        /\ agg.unit_status.name = "blocked" <=> (~agg.has_s3 \/ ~agg.is_coherent)
        /\ agg.unit_status.name = "blocked" <=> agg.inconsistencies # <<>>
        /\ (agg.inconsistencies = <<>> /\ agg.is_ready) =>
              /\ agg.unit_status.name = "active"
              /\ agg.unit_status.message = <<"[coordinator] degraded">>
                    <=> (DOMAIN relations # {} /\ ~agg.is_recommended)

\* failures while the workload is not ready: the status collected is Blocked
C11_Witness ==
    /\ agg.done
    /\ ~agg.is_ready
    /\ agg.inconsistencies # <<>>
    /\ agg.unit_status.name = "blocked"

(***************************************************************************)
(* Claims on what a pass publishes (Spec).                                 *)
(***************************************************************************)
\* the arguments _update_tempo_cluster passes that are not None
SuppliedFields ==
    {"tempo_config", "loki_endpoints"} \cup
    (IF tls_available THEN {"ca_cert", "server_cert", "privkey_secret_id"} ELSE {})

\* C12: after a pass that called publish_data, the application databag of
\* every tempo-cluster relation holds exactly the fields supplied in the
\* call, with the values supplied: a field an earlier pass wrote and this one
\* did not supply, such as the three TLS fields once TLS is unavailable, is
\* gone.
C12_PublishIsFullReplace ==
    (charm.dispatched /\ "publish_data" \in charm.calls) =>
        /\ DOMAIN cluster_databag = DOMAIN relations
        /\ \A r \in DOMAIN cluster_databag :
              /\ DOMAIN cluster_databag[r] = SuppliedFields
              /\ cluster_databag[r]["tempo_config"] = JsonObj(TempoConfig)
              /\ tls_available =>
                    /\ cluster_databag[r]["ca_cert"] = JsonStr(cert.ca_cert[1])
                    /\ cluster_databag[r]["server_cert"] = JsonStr(cert.server_cert[1])

\* a pass has published while TLS is unavailable, after TLS had been
\* available (the ingress configuration submitted then is still there): no
\* TLS field is in the databag
C12_Witness ==
    /\ charm.dispatched
    /\ "publish_data" \in charm.calls
    /\ ~tls_available
    /\ ingress_cfg.submitted /\ ingress_cfg.use_tls
    /\ \E r \in DOMAIN cluster_databag :
          DOMAIN cluster_databag[r] = {"tempo_config", "loki_endpoints"}

\* a dispatch that follows a dispatch with no change of the environment in
\* between and that takes the same path: same verdict, same utility methods
\* entered, same calls made, same outcome
RepeatedPass == charm.dispatched /\ charm' = charm

\* C13: running the pass again with unchanged inputs (same membership
\* snapshot, s3 data, TLS material, requested receivers and leadership)
\* leaves everything the pass publishes exactly as it was after the first
\* run: the tempo-cluster databags, the tracing databags and the ingress
\* configuration.
C13_RepeatedPassChangesNothing ==
    [][RepeatedPass =>
          /\ cluster_databag' = cluster_databag
          /\ tracing_databag' = tracing_databag
          /\ ingress_cfg' = ingress_cfg]_vars

\* the part of C13 on the tempo-cluster databags and the ingress
\* configuration alone
C13_RepeatedPassKeepsClusterRecord ==
    [][RepeatedPass =>
          /\ cluster_databag' = cluster_databag
          /\ ingress_cfg' = ingress_cfg]_vars

(***************************************************************************)
(* Claims on the config synthesizers (SynthSpec).                          *)
(***************************************************************************)

\* C14: the ingester replication factor equals max(1, number of distinct
\* ingester addresses) for every aggregated address map, with no upper
\* cap: n >= 1 ingester addresses give n, and a map with no ingester role
\* gives 1.
C14_ReplicationFactor ==
    synth.op = "_build_ingester_config" =>
        LET factor == synth.result.lifecycler.ring.replication_factor
        IN /\ factor >= 1
           /\ "ingester" \notin DOMAIN synth.roles_addresses => factor = 1
           /\ "ingester" \in DOMAIN synth.roles_addresses =>
                 factor = Cardinality(synth.roles_addresses["ingester"])

\* the ingester config has been built for a map whose ingester role has
\* every address of the pool, more than three, beside another role
C14_Witness ==
    /\ synth.op = "_build_ingester_config"
    /\ "ingester" \in DOMAIN synth.roles_addresses
    /\ "querier" \in DOMAIN synth.roles_addresses
    /\ synth.roles_addresses["ingester"] = SynthAddresses
    /\ MaxAddresses > 3
    /\ synth.result.lifecycler.ring.replication_factor = MaxAddresses

\* the hosts of a join list
JoinHosts(join_members) == {join_members[i].host : i \in DOMAIN join_members}

\* C15: the memberlist config lists the union of all worker addresses
\* across all roles, each address once, each with the gossip port 7946,
\* with bind_port 7946 and abort_if_cluster_join_fails false, and an empty
\* join list with no peers; the order of the list is deterministic: two
\* configs built from the same addresses are the same.
C15_MemberlistConfig ==
    /\ [](synth.op = "_build_memberlist_config" =>
            /\ JoinHosts(synth.result.join_members) =
                   UNION {synth.addresses_by_role[role] :
                             role \in DOMAIN synth.addresses_by_role}
            /\ Len(synth.result.join_members) =
                   Cardinality(JoinHosts(synth.result.join_members))
            /\ \A i \in DOMAIN synth.result.join_members :
                   synth.result.join_members[i].port = 7946
            /\ synth.result.bind_port = 7946
            /\ synth.result.abort_if_cluster_join_fails = FALSE
            /\ (DOMAIN synth.addresses_by_role = {} =>
                   synth.result.join_members = <<>>))
    /\ [][(/\ synth.op = "_build_memberlist_config"
           /\ synth'.op = "_build_memberlist_config"
           /\ synth'.addresses_by_role = synth.addresses_by_role)
          => synth'.result = synth.result]_vars

\* the part of C15 that does not depend on the order of the join list
C15_MemberlistContent ==
    synth.op = "_build_memberlist_config" =>
        /\ JoinHosts(synth.result.join_members) =
               UNION {synth.addresses_by_role[role] :
                         role \in DOMAIN synth.addresses_by_role}
        /\ Len(synth.result.join_members) =
               Cardinality(JoinHosts(synth.result.join_members))
        /\ \A i \in DOMAIN synth.result.join_members :
               synth.result.join_members[i].port = 7946
        /\ synth.result.bind_port = 7946
        /\ synth.result.abort_if_cluster_join_fails = FALSE
        /\ (DOMAIN synth.addresses_by_role = {} =>
               synth.result.join_members = <<>>)

\* the receiver protocols of the fixed table, with their default ports
KnownProtocols == {"zipkin", "otlp_grpc", "otlp_http", "jaeger_thrift_http", "jaeger_grpc"}

DefaultPort(protocol) ==
    CASE protocol = "zipkin" -> 9411
      [] protocol = "otlp_grpc" -> 4317
      [] protocol = "otlp_http" -> 4318
      [] protocol = "jaeger_thrift_http" -> 14268
      [] protocol = "jaeger_grpc" -> 14250

\* C16: the distributor config has one receiver entry per distinct
\* requested receiver protocol, at the endpoint 0.0.0.0:<default port> of
\* the protocol; a protocol requested twice yields one entry and an empty
\* request yields no receivers; with TLS every entry carries the same
\* ca_file/cert_file/key_file triplet, without TLS no entry has a tls
\* block.
C16_DistributorReceivers ==
    synth.op = "_build_distributor_config" =>
        LET wanted == Range(synth.protocols) \cap KnownProtocols
            receivers == synth.result.receivers
        IN /\ Cardinality(DOMAIN receivers) = Cardinality(wanted)
           /\ \A protocol \in wanted :
                 /\ ReceiverPath(protocol) \in DOMAIN receivers
                 /\ receivers[ReceiverPath(protocol)].endpoint =
                       [host |-> "0.0.0.0", port |-> DefaultPort(protocol)]
           /\ synth.protocols = <<>> => DOMAIN receivers = {}
           /\ \A path \in DOMAIN receivers :
                 IF synth.use_tls
                 THEN /\ "tls" \in DOMAIN receivers[path]
                      /\ receivers[path].tls =
                            [ca_file |-> "/usr/local/share/ca-certificates/ca.crt",
                             cert_file |-> "/etc/worker/server.cert",
                             key_file |-> "/etc/worker/private.key"]
                 ELSE "tls" \notin DOMAIN receivers[path]

\* a distributor config has been built with TLS for a request that names
\* one protocol twice and another once
C16_Witness ==
    /\ synth.op = "_build_distributor_config"
    /\ synth.use_tls
    /\ Len(synth.protocols) = 3
    /\ synth.protocols[1] = synth.protocols[3]
    /\ synth.protocols[1] \in KnownProtocols
    /\ synth.protocols[2] \in KnownProtocols \ {synth.protocols[1]}
    /\ Cardinality(DOMAIN synth.result.receivers) = 2

\* C17 as stated: a requested protocol that is not in the fixed
\* receiver-protocol table is rejected, the synthesis call failing with an
\* error instead of producing a config without the protocol.
C17_UnknownProtocolRejected ==
    (/\ synth.op = "_build_distributor_config"
     /\ Range(synth.protocols) \ KnownProtocols # {})
        => synth.result.raised

\* C17 amended: a requested protocol that is not in the table is dropped
\* without an error: _requested_receivers returns the supported ones among
\* the requested and the enabled receivers, each once, and the distributor
\* config builder returns a config with a receiver for each supported
\* protocol it is handed and none for the others.
C17_UnknownProtocolDropped ==
    /\ synth.op = "_requested_receivers" =>
          /\ Range(synth.result) = (synth.requested \cup {"otlp_http"}) \cap KnownProtocols
          /\ Len(synth.result) = Cardinality(Range(synth.result))
    /\ synth.op = "_build_distributor_config" =>
          /\ ~synth.result.raised
          /\ DOMAIN synth.result.receivers =
                {ReceiverPath(protocol) :
                    protocol \in Range(synth.protocols) \cap KnownProtocols}

\* the builder has been handed a protocol that is not in the table beside
\* one that is, and has returned a config with the one receiver
C17_Witness ==
    /\ synth.op = "_build_distributor_config"
    /\ "tempo" \in Range(synth.protocols)
    /\ "zipkin" \in Range(synth.protocols)
    /\ ~synth.result.raised
    /\ DOMAIN synth.result.receivers = {<<"zipkin">>}

\* C18: without a remote-write target the synthesized config has neither a
\* metrics_generator section nor an overrides section; with targets both
\* sections are present and metrics_generator.storage.remote_write is the
\* list of the supplied targets.
C18_MetricsGeneratorIffRemoteWrite ==
    synth.op = "build" =>
        IF synth.remote_write = <<>>
        THEN /\ "metrics_generator" \notin DOMAIN synth.result
             /\ "overrides" \notin DOMAIN synth.result
        ELSE /\ "metrics_generator" \in DOMAIN synth.result
             /\ "overrides" \in DOMAIN synth.result
             /\ synth.result["metrics_generator"].storage.remote_write = synth.remote_write

\* a config has been built with the targets of at least two units
C18_Witness ==
    /\ synth.op = "build"
    /\ Len(synth.remote_write) >= 2
    /\ synth.result["metrics_generator"].storage.remote_write[2] = RemoteWriteTarget(2)

\* the name of a protocol's upstream pool
PoolName(protocol) ==
    CASE protocol = "zipkin" -> <<"zipkin">>
      [] protocol = "otlp_grpc" -> <<"otlp", "-", "grpc">>
      [] protocol = "otlp_http" -> <<"otlp", "-", "http">>
      [] protocol = "jaeger_thrift_http" -> <<"jaeger", "-", "thrift", "-", "http">>
      [] protocol = "jaeger_grpc" -> <<"jaeger", "-", "grpc">>
      [] protocol = "tempo_http" -> <<"tempo", "-", "http">>
      [] protocol = "tempo_grpc" -> <<"tempo", "-", "grpc">>

ServerProtocols == {"tempo_http", "tempo_grpc"}

\* the port of a protocol of either surface
SurfacePort(protocol) ==
    CASE protocol = "tempo_http" -> 3200
      [] protocol = "tempo_grpc" -> 9096
      [] OTHER -> DefaultPort(protocol)

\* the protocols of a role's service surface
Surface(role) ==
    CASE role = "distributor" -> KnownProtocols
      [] role = "query-frontend" -> ServerProtocols
      [] role = "all" -> KnownProtocols \cup ServerProtocols
      [] OTHER -> {}

\* C20: for every role that has addresses and every protocol of the role's
\* service surface (the receiver protocols for distributor, the server
\* protocols for query-frontend, both for 'all'), the routing table has one
\* upstream pool named after the protocol with '_' replaced by '-', every
\* address of the role is a member of it paired with the protocol's port,
\* no member has another port, and a listener on that port over IPv4 and
\* IPv6 passes to that pool.
C20_PoolsAndListeners ==
    synth.op = "nginx_config" =>
        \A role \in DOMAIN synth.addresses_by_role :
            \A protocol \in Surface(role) :
                /\ Cardinality({u \in synth.upstreams : u.name = PoolName(protocol)}) = 1
                /\ \A u \in synth.upstreams :
                      u.name = PoolName(protocol) =>
                          /\ \A a \in synth.addresses_by_role[role] :
                                [address |-> a, port |-> SurfacePort(protocol)] \in u.servers
                          /\ \A s \in u.servers : s.port = SurfacePort(protocol)
                /\ \E server \in synth.servers :
                      /\ server.listen = {[ipv6 |-> FALSE, port |-> SurfacePort(protocol)],
                                          [ipv6 |-> TRUE, port |-> SurfacePort(protocol)]}
                      /\ server.location.upstream = PoolName(protocol)

\* the proxy configuration has been built for two distributors and a query
\* frontend, and holds the pool of a protocol with two separators in its
\* name with both distributors in it
C20_Witness ==
    /\ synth.op = "nginx_config"
    /\ DOMAIN synth.addresses_by_role = {"distributor", "query-frontend"}
    /\ Cardinality(synth.addresses_by_role["distributor"]) = 2
    /\ \E u \in synth.upstreams :
          /\ u.name = <<"jaeger", "-", "thrift", "-", "http">>
          /\ {s.address : s \in u.servers} = synth.addresses_by_role["distributor"]

\* C21: a role without addresses contributes no upstream pool and no
\* listener: every pool of the routing table has a member, every pool
\* belongs to a role of the surface table that has addresses, and every
\* listener passes to a pool that is in the table.
C21_NoPoolNoListenerWithoutAddresses ==
    synth.op = "nginx_config" =>
        /\ \A u \in synth.upstreams :
              /\ u.servers # {}
              /\ \E role \in {"distributor", "query-frontend"} :
                    /\ \E protocol \in Surface(role) : u.name = PoolName(protocol)
                    /\ \/ role \in DOMAIN synth.addresses_by_role
                       \/ "all" \in DOMAIN synth.addresses_by_role
        /\ \A server \in synth.servers :
              \E u \in synth.upstreams :
                 /\ u.name = server.location.upstream
                 /\ u.servers # {}
                 /\ \A l \in server.listen : \A s \in u.servers : s.port = l.port

\* the proxy configuration has been built for distributors and ingesters
\* only: the receivers are listened for, the query frontend's ports are not
C21_Witness ==
    /\ synth.op = "nginx_config"
    /\ DOMAIN synth.addresses_by_role = {"distributor", "ingester"}
    /\ \E server \in synth.servers : server.location.upstream = <<"otlp", "-", "grpc">>
    /\ \A server \in synth.servers : server.location.upstream # <<"tempo", "-", "http">>

\* the protocols whose transport is gRPC
GrpcProtocols == {"tempo_grpc", "otlp_grpc", "jaeger_grpc"}

\* C22: a listener is flagged gRPC exactly when the transport of its
\* protocol is gRPC (tempo_grpc, otlp_grpc and jaeger_grpc: the protocols
\* with 'grpc' in their name) and HTTP otherwise; a gRPC listener passes to
\* its protocol's pool with grpc_pass, every other with proxy_pass.
C22_GrpcListeners ==
    synth.op = "nginx_config" =>
        \A server \in synth.servers :
            \E protocol \in KnownProtocols \cup ServerProtocols :
                /\ server.location.upstream = PoolName(protocol)
                /\ \A l \in server.listen : l.port = SurfacePort(protocol)
                /\ protocol \in GrpcProtocols <=> "grpc" \in Range(server.location.upstream)
                /\ server.location.pass =
                      IF protocol \in GrpcProtocols THEN "grpc_pass" ELSE "proxy_pass"

\* the proxy configuration has been built for units that run every role:
\* tempo_grpc and a gRPC receiver are passed with grpc_pass, tempo_http and
\* an HTTP receiver with proxy_pass
C22_Witness ==
    /\ synth.op = "nginx_config"
    /\ "all" \in DOMAIN synth.addresses_by_role
    /\ \E a, b, c, d \in synth.servers :
          /\ a.location = [pass |-> "grpc_pass", upstream |-> <<"tempo", "-", "grpc">>]
          /\ b.location = [pass |-> "proxy_pass", upstream |-> <<"tempo", "-", "http">>]
          /\ c.location = [pass |-> "grpc_pass", upstream |-> <<"jaeger", "-", "grpc">>]
          /\ d.location = [pass |-> "proxy_pass", upstream |-> <<"zipkin">>]

\* the pass was made on a snapshot with exactly one member of every role
\* and the required dependency ready
OneMemberPerRole ==
    /\ synth.op = "pass"
    /\ synth.has_s3
    /\ \A role \in ConcreteRoles : synth.members[role] = 1

\* the pools of the routing table that hold an address of the role
PoolsOf(role) ==
    {u \in synth.upstreams : \E s \in u.servers : s.address \in synth.addresses[role]}

\* C23 as stated: on a snapshot with one member of every concrete role and
\* the dependency ready the pass is coherent, has no failure, gives
\* replication factor 1, and the routing table holds one upstream pool for
\* every role, each with exactly one member.
C23_EndToEnd ==
    OneMemberPerRole =>
        /\ synth.is_coherent
        /\ synth.inconsistencies = <<>>
        /\ synth.ingester.lifecycler.ring.replication_factor = 1
        /\ \A role \in ConcreteRoles : Cardinality(PoolsOf(role)) = 1
        /\ \A u \in synth.upstreams : Cardinality(u.servers) = 1

\* C23, what holds: on that snapshot the pass is coherent, has no failure
\* and gives replication factor 1; the routing table holds one upstream
\* pool for every protocol of the distributor's and of the query frontend's
\* surface and none for the other roles, and each pool has exactly one
\* member: d1 for a receiver protocol, f1 for a server protocol, with the
\* protocol's port.
C23_EndToEndPoolPerProtocol ==
    OneMemberPerRole =>
        /\ synth.is_coherent
        /\ synth.inconsistencies = <<>>
        /\ synth.ingester.lifecycler.ring.replication_factor = 1
        /\ {u.name : u \in synth.upstreams} =
              {PoolName(protocol) : protocol \in KnownProtocols \cup ServerProtocols}
        /\ Cardinality(synth.upstreams) = Cardinality(KnownProtocols \cup ServerProtocols)
        /\ \A protocol \in KnownProtocols \cup ServerProtocols :
              \A u \in synth.upstreams :
                 u.name = PoolName(protocol) =>
                    u.servers = {[address |-> IF protocol \in KnownProtocols
                                              THEN "d1" ELSE "f1",
                                  port |-> SurfacePort(protocol)]}

\* the pass on the snapshot q1, f1, i1, d1, c1, m1 with the dependency
\* ready has synthesized, and the distributor d1 is the member of more
\* than one pool
C23_Witness ==
    /\ OneMemberPerRole
    /\ synth.synthesized
    /\ synth.addresses["distributor"] = {"d1"}
    /\ Cardinality(PoolsOf("distributor")) > 1
    /\ PoolsOf("ingester") = {}

(***************************************************************************)
(* Claims on the tracing endpoint (TracingSpec).                           *)
(***************************************************************************)

\* the protocols of the receivers published on a tracing relation
PublishedProtocols(r) == {tracing_databag[r][i].protocol : i \in DOMAIN tracing_databag[r]}

\* the handler of a tracing relation event has run on the leader, with
\* tracing relations to publish to
TracingEventHandled ==
    /\ charm.dispatched
    /\ charm.handled
    /\ leader
    /\ DOMAIN tracing # {}
    /\ charm.entered = {"_update_tracing_relations", "_update_tempo_cluster"}

SentDatabag(data) ==
    [k \in {"ingress_url", "internal_url", "grpc_port"} |-> data[k]]

C27_AllOrNothing ==
    [][charm'.dispatched =>
          \/ /\ cluster_databag' = cluster_databag
             /\ charm'.error => "publish_data" \notin charm'.calls
          \/ /\ ~charm'.error
             /\ \A r \in DOMAIN cluster_databag' : cluster_databag'[r] = PublishKwargs]_vars

\* a pass failed on a deployment of two worker applications, one of which
\* holds a record of an earlier pass and the other none yet
C27_Witness ==
    /\ charm.dispatched /\ charm.error
    /\ "generate_config" \in charm.calls
    /\ Cardinality(DOMAIN cluster_databag) >= 2
    /\ \E r, q \in DOMAIN cluster_databag :
          /\ cluster_databag[r] = EmptyDatabag
          /\ "tempo_config" \in DOMAIN cluster_databag[q]
\* C29: in every record a pass publishes to the tempo-cluster databags the
\* fields ca_cert, server_cert and privkey_secret_id are all present when
\* TLS is available in that pass (certificate handler enabled, server
\* certificate, private key and CA certificate all non-empty) and all
\* absent when it is not
C29_TlsFieldsTogether ==
    [][charm'.dispatched /\ "publish_data" \in charm'.calls =>
          \A r \in DOMAIN cluster_databag' :
             (DOMAIN cluster_databag'[r]) \cap TlsFields =
                IF /\ cert.enabled
                   /\ cert.server_cert # <<>>
                   /\ cert.private_key # <<>>
                   /\ cert.ca_cert # <<>>
                THEN TlsFields ELSE {}]_vars

\* a pass published while the certificate handler was enabled and the
\* certificate not issued yet
C29_Witness ==
    /\ charm.dispatched /\ "publish_data" \in charm.calls
    /\ cert = CertPending
    /\ DOMAIN cluster_databag # {}
    /\ \A r \in DOMAIN cluster_databag :
          DOMAIN cluster_databag[r] = {"tempo_config", "loki_endpoints"}
C30_CoherentRolesHaveAddresses ==
    agg.done /\ agg.is_coherent =>
        \A role \in ConcreteRoles : AddrSet(role) \cup AddrSet("all") # {}
====
